---------------------------- MODULE Spec2Model ----------------------------
(***************************************************************************)
(* A model of PyCarver (src/main.py): the partition-table parser, the      *)
(* directory-tree fold, the carve jobs with their progress queue, the      *)
(* session operations (import, carve, recover, file-carve), and the        *)
(* functions that read a tool's output (getMd5, fsstatParser, the job's    *)
(* classification of the copier's output).                                 *)
(*                                                                         *)
(* Text that the program slices, splits or searches is a sequence of       *)
(* one-character strings, so that split, strip, find, startswith and "in"  *)
(* are computed as Python computes them.  Flag values ("Yes", "No") and    *)
(* program counters are plain strings.                                     *)
(***************************************************************************)
EXTENDS Integers, Sequences, FiniteSets

(***************************************************************************)
(* State                                                                   *)
(***************************************************************************)
VARIABLES
    mmlsKinds,   \* the row kinds the input text was built from
    mmlsHeader,  \* whether the input text has a header row
    mmlsF,       \* mmlsParser: the lines f
    mmlsPos,     \* mmlsParser: number of lines consumed
    mmlsSt,      \* mmlsParser: info, bs, slotFound, partitionCounter
    mmlsPc       \* mmlsParser: "loop", "returned" or "raised"

VARIABLES
    fsDirs,       \* the directories on disk under the walked path
    fsFiles,      \* the number of files in each of them
    walkStack,    \* os.walk: the directories still to visit, next first
    directories,  \* getFilesTree: directories
    dir,          \* getFilesTree: dir
    done,         \* getFilesTree: done
    foldI,        \* getFilesTree: how many d the outer loop has finished
    treePc,       \* "walk", "fold", "returned" or "KeyError"
    firstDir      \* the dictionary returned by the first build, once there is one

VARIABLES
    listOfPartitions,    \* App.listOfPartitions: the registry
    partitionsToUse,     \* App.partitionsToUse: the selected indices (0-based)
    recoverFilesButton,  \* state of the Recover Deleted Files button
    carveFilesButton,    \* state of the Carve Files button
    console              \* lines written by insertCommand during the handler in
                         \* progress: text, deli, the job, and who wrote

VARIABLES
    orchPc,            \* carvePartitions: where the orchestrator is
    outputFolderPath,  \* carvePartitions: the folder chosen
    threads,           \* carvePartitions: threads, each with the state of its run()
    cmdsQueue,         \* carvePartitions: cmdsQueue
    sumI,              \* carvePartitions: entries of the summary loop finished
    summary,           \* carvePartitions: succ, err, the listed indices, fsCarved
    emitted            \* per thread, the messages it has put on the queue

VARIABLES
    carvePartitionsButton,  \* state of the Carve Partitions button
    carveWin,               \* a carve-selection window is open
    recoverWin,             \* a recover-selection window is open
    filesWin,               \* the file-carve window: "closed", "open", or "bare" (no button)
    dropVar,                \* App.dropVar: the option chosen in the file-carve window
    sessPc,                 \* the main thread: "idle", "carve" (a run followed step by
                            \* step), "summaryBox" or "recover"
    recI,                   \* recoverFiles: entries of its loop finished
    outFolder,              \* recoverFiles: the folder chosen
    recStdout,              \* recoverFiles: stdout of the tool in the entry just finished
    boxes                   \* message boxes shown by the handler in progress

sessVars == <<carvePartitionsButton, carveWin, recoverWin, filesWin, dropVar,
              sessPc, recI, outFolder, recStdout, boxes>>

appVars == <<listOfPartitions, partitionsToUse, recoverFilesButton, carveFilesButton, console>>

carveVars == <<orchPc, outputFolderPath, threads, cmdsQueue, sumI, summary, emitted>>

mmlsVars == <<mmlsKinds, mmlsHeader, mmlsF, mmlsPos, mmlsSt, mmlsPc>>

treeVars == <<fsDirs, fsFiles, walkStack, directories, dir, done, foldI, treePc, firstDir>>

VARIABLES
    toolPc,      \* the helper called on a tool's output, and whether it has returned
    toolLines,   \* the lines the prober's output was put together from
    toolStdout,  \* the tool's stdout
    toolStderr,  \* the tool's stderr
    toolResult,  \* the helper's return value
    toolBoxes    \* the error boxes the helper has shown

toolVars == <<toolPc, toolLines, toolStdout, toolStderr, toolResult, toolBoxes>>

vars == <<mmlsVars, treeVars, appVars, carveVars, sessVars, toolVars>>

(***************************************************************************)
(* Python string primitives over sequences of characters                   *)
(***************************************************************************)

\* str.startswith(prefix)
StartsWith(s, p) ==
    /\ Len(p) <= Len(s)
    /\ SubSeq(s, 1, Len(p)) = p

\* str.find(sub): the 0-based index of the first occurrence, or -1
Find(s, sub) ==
    LET hits == { i \in 0..(Len(s) - Len(sub)) : SubSeq(s, i + 1, i + Len(sub)) = sub }
    IN  IF hits = {} THEN -1 ELSE CHOOSE i \in hits : \A j \in hits : i <= j

\* "sub in s" on strings
Contains(s, sub) == Find(s, sub) > -1

\* s[a:b] for a >= 0; a negative b counts from the end, as Python does
PySlice(s, a, b) ==
    LET e == IF b < 0 THEN (IF Len(s) + b < 0 THEN 0 ELSE Len(s) + b)
                      ELSE (IF b > Len(s) THEN Len(s) ELSE b)
    IN  SubSeq(s, a + 1, e)

\* s[a:]
PyFrom(s, a) == SubSeq(s, a + 1, Len(s))

Whitespace == {" ", "\t", "\n", "\r"}

RECURSIVE LStrip(_)
LStrip(s) == IF s # <<>> /\ Head(s) \in Whitespace THEN LStrip(Tail(s)) ELSE s

RECURSIVE RStrip(_)
RStrip(s) ==
    IF s # <<>> /\ s[Len(s)] \in Whitespace THEN RStrip(SubSeq(s, 1, Len(s) - 1)) ELSE s

\* str.strip()
Strip(s) == RStrip(LStrip(s))

\* str.split(d) for a one-character delimiter: every delimiter cuts, so
\* consecutive delimiters give empty tokens and "" gives [""]
RECURSIVE SplitOn(_, _)
SplitOn(s, d) ==
    LET i == Find(s, <<d>>)
    IN  IF i = -1 THEN <<s>>
        ELSE <<SubSeq(s, 1, i)>> \o SplitOn(PyFrom(s, i + 1), d)

\* d.join(toks)
RECURSIVE Join(_, _)
Join(toks, d) ==
    IF toks = <<>> THEN <<>>
    ELSE IF Len(toks) = 1 THEN toks[1]
    ELSE toks[1] \o d \o Join(Tail(toks), d)

\* str.replace(a, b) for one-character a and b
Replace(s, a, b) == [i \in 1..Len(s) |-> IF s[i] = a THEN b ELSE s[i]]

Digit(n) == <<CASE n = 0 -> "0" [] n = 1 -> "1" [] n = 2 -> "2" [] n = 3 -> "3"
                [] n = 4 -> "4" [] n = 5 -> "5" [] n = 6 -> "6" [] n = 7 -> "7"
                [] n = 8 -> "8" [] n = 9 -> "9">>

\* "%d" % n and str(n), n >= 0
RECURSIVE DecStr(_)
DecStr(n) == IF n < 10 THEN Digit(n) ELSE DecStr(n \div 10) \o Digit(n % 10)

\* Python's None
None == <<"<None>">>

(***************************************************************************)
(* mmlsParser (src/main.py 74-141)                                         *)
(***************************************************************************)

S_UnitsAreIn == <<"U","n","i","t","s"," ","a","r","e"," ","i","n"," ">>
S_Slot       == <<"S","l","o","t">>
S_Meta       == <<"M","e","t","a">>
S_fs         == <<"_","f","s">>

\* State of the loop of mmlsParser before the first line
mmlsStart ==
    [info |-> <<>>, bs |-> -1, slotFound |-> FALSE, partitionCounter |-> 0,
     err |-> FALSE]

\* line[17:] / line[14:] on a list of tokens
TokensFrom(line, k) == SubSeq(line, k + 1, Len(line))

\* The dictionary built for a "Meta" row; line is the list of tokens.
MetaRecord(line) ==
    LET desc == Join(TokensFrom(line, 17), <<" ">>)
    IN  [Slot |-> line[3], CarvedFiles |-> "No", FSType |-> <<>>, Path |-> <<>>,
         Carved |-> "No", Start |-> line[9], End |-> line[12], Length |-> line[15],
         Description |-> desc, FileSystem |-> "No",
         Name |-> Replace(desc, " ", "_")]

\* IsFsToken that finds no token colon-tagged
IsFsToken_Never(tok) == FALSE

\* Whether the type token tags a filesystem-bearing row
IsFsToken(tok) == Contains(tok, <<":">>)

\* DataRecord with the description taken one token too late (line[15:])
DataRecord_LateDescription(line, k) ==
    LET base == Join(TokensFrom(line, 15), <<" ">>)
        fs   == IsFsToken(line[3])
        desc == IF fs THEN base \o S_fs \o DecStr(k) ELSE base
    IN  [Slot |-> line[3], CarvedFiles |-> "No", FSType |-> <<>>, Path |-> <<>>,
         Carved |-> "No", Start |-> line[6], End |-> line[9], Length |-> line[12],
         Description |-> desc, FileSystem |-> IF fs THEN "Yes" ELSE "No",
         Name |-> Replace(desc, " ", "_")]

\* The dictionary built for any other row, with the counter value k
DataRecord(line, k) ==
    LET base == Join(TokensFrom(line, 14), <<" ">>)
        fs   == IsFsToken(line[3])
        desc == IF fs THEN base \o S_fs \o DecStr(k) ELSE base
    IN  [Slot |-> line[3], CarvedFiles |-> "No", FSType |-> <<>>, Path |-> <<>>,
         Carved |-> "No", Start |-> line[6], End |-> line[9], Length |-> line[12],
         Description |-> desc, FileSystem |-> IF fs THEN "Yes" ELSE "No",
         Name |-> Replace(desc, " ", "_")]

\* NextCounter advancing on every non-Meta row
NextCounter_EveryRow(line, k) == k + 1

\* The counter after a non-Meta row
NextCounter(line, k) == IF IsFsToken(line[3]) THEN k + 1 ELSE k

\* mmlsStep that skips a row with too few tokens instead of raising
mmlsStep_SkipShort(st, raw) ==
    LET line == SplitOn(Strip(raw), " ")
    IN  IF ~st.slotFound
        THEN IF \E i \in 1..Len(line) : line[i] = S_Slot
             THEN [st EXCEPT !.slotFound = TRUE]
             ELSE st
        ELSE IF Len(line) < 12 \/ (line[3] = S_Meta /\ Len(line) < 15) THEN st
        ELSE IF line[3] = S_Meta
             THEN [st EXCEPT !.info = Append(@, MetaRecord(line))]
             ELSE [st EXCEPT
                     !.info = Append(@, DataRecord(line, st.partitionCounter)),
                     !.partitionCounter = NextCounter(line, @)]

\* One iteration of "for line in f".  An index past the end of the token
\* list raises IndexError, which ends the whole call (err).
mmlsStep(st, raw) ==
    LET bs1  == IF Contains(raw, S_UnitsAreIn)
                THEN PySlice(raw, Find(raw, S_UnitsAreIn) + Len(S_UnitsAreIn),
                             Find(raw, <<"-">>))
                ELSE st.bs
        line == SplitOn(Strip(raw), " ")
        st1  == [st EXCEPT !.bs = bs1]
    IN  IF ~st.slotFound
        THEN IF \E i \in 1..Len(line) : line[i] = S_Slot
             THEN [st1 EXCEPT !.slotFound = TRUE]
             ELSE st1
        ELSE IF Len(line) < 3 THEN [st1 EXCEPT !.err = TRUE]
        ELSE IF line[3] = S_Meta
             THEN IF Len(line) < 15 THEN [st1 EXCEPT !.err = TRUE]
                  ELSE [st1 EXCEPT !.info = Append(@, MetaRecord(line))]
             ELSE IF Len(line) < 12 THEN [st1 EXCEPT !.err = TRUE]
                  ELSE [st1 EXCEPT
                          !.info = Append(@, DataRecord(line, st.partitionCounter)),
                          !.partitionCounter = NextCounter(line, @)]

RECURSIVE mmlsLoop(_, _)
mmlsLoop(f, st) ==
    IF f = <<>> \/ st.err THEN st ELSE mmlsLoop(Tail(f), mmlsStep(st, Head(f)))

\* mmlsParser(f): f is the list of lines.  The result carries info and bs,
\* or err when the call ended in IndexError.
mmlsParser(f) == mmlsLoop(f, mmlsStart)

(***************************************************************************)
(* Partition-lister text given to mmlsParser.  A row is laid out as mmls   *)
(* prints a DOS table: the slot, two spaces, the type token, and columns   *)
(* separated by three spaces ("Meta" is followed by six), which is what    *)
(* puts start/end/length at tokens 5/8/11 (8/11/14 for "Meta").            *)
(***************************************************************************)

MaxRows == 3

Sp(n) == [i \in 1..n |-> " "]

Dec2(n) == IF n < 10 THEN <<"0">> \o DecStr(n) ELSE DecStr(n)

S_HeaderLine ==
    Sp(5) \o S_Slot \o Sp(4) \o <<"S","t","a","r","t">> \o Sp(3) \o <<"E","n","d">>
          \o Sp(3) \o <<"L","e","n">> \o Sp(3) \o <<"D","e","s","c">>
S_UnitsLine == S_UnitsAreIn \o <<"5","1","2","-","b","y","t","e">>
S_Unalloc   == <<"-","-","-","-","-">>
D_Primary   == <<"P","r","i","m"," ","T","a","b","l","e">>
D_Unalloc   == <<"U","n","a","l","l","o","c">>
D_Fat       == <<"F","A","T","1","6"," ","(","0","x","0","6",")">>

RowKinds == {"meta", "unalloc", "fs", "nodesc", "short", "empty"}

\* The rows that carry all five columns of the table
CompleteKinds == {"meta", "unalloc", "fs"}

\* The kinds whose type token is colon-tagged
FsKinds == {"fs"}

FsType(idx) == <<"0","0",":">> \o Dec2(idx)

\* The text of row number idx of the given kind
RowLine(kind, idx) ==
    LET slot == Dec2(idx) \o <<":">> \o Sp(2)
        cols == Sp(3) \o Dec2(idx) \o Sp(3) \o Dec2(idx + 1) \o Sp(3) \o <<"2">>
    IN  CASE kind = "meta"    -> slot \o S_Meta \o Sp(3) \o cols \o Sp(3) \o D_Primary
          [] kind = "unalloc" -> slot \o S_Unalloc \o cols \o Sp(3) \o D_Unalloc
          [] kind = "fs"      -> slot \o FsType(idx) \o cols \o Sp(3) \o D_Fat
          [] kind = "nodesc"  -> slot \o S_Unalloc \o cols
          [] kind = "short"   -> slot \o FsType(idx) \o Sp(3) \o Dec2(idx)
          [] kind = "empty"   -> <<>>

RowLines(kinds) == [i \in 1..Len(kinds) |-> RowLine(kinds[i], i - 1)]

KindSeqs == UNION { [1..n -> RowKinds] : n \in 0..MaxRows }

\* The lines of a partition-lister text: the units line, a blank line, the
\* header (when present) and the rows
MmlsText(header, kinds) ==
    <<S_UnitsLine, <<>>>> \o (IF header THEN <<S_HeaderLine>> ELSE <<>>) \o RowLines(kinds)

\* One iteration of the loop over the lines
MmlsLine ==
    /\ mmlsPc = "loop"
    /\ mmlsPos < Len(mmlsF)
    /\ ~mmlsSt.err
    /\ mmlsSt' = mmlsStep(mmlsSt, mmlsF[mmlsPos + 1])
    /\ mmlsPos' = mmlsPos + 1
    /\ UNCHANGED <<mmlsKinds, mmlsHeader, mmlsF, mmlsPc>>
    /\ UNCHANGED <<treeVars, appVars, carveVars, sessVars, toolVars>>

\* return info, bs
MmlsReturn ==
    /\ mmlsPc = "loop"
    /\ mmlsPos = Len(mmlsF)
    /\ ~mmlsSt.err
    /\ mmlsPc' = "returned"
    /\ UNCHANGED <<mmlsKinds, mmlsHeader, mmlsF, mmlsPos, mmlsSt>>
    /\ UNCHANGED <<treeVars, appVars, carveVars, sessVars, toolVars>>

\* IndexError leaves the function
MmlsRaise ==
    /\ mmlsPc = "loop"
    /\ mmlsSt.err
    /\ mmlsPc' = "raised"
    /\ UNCHANGED <<mmlsKinds, mmlsHeader, mmlsF, mmlsPos, mmlsSt>>
    /\ UNCHANGED <<treeVars, appVars, carveVars, sessVars, toolVars>>

MmlsNext == MmlsLine \/ MmlsReturn \/ MmlsRaise


(***************************************************************************)
(* Properties of mmlsParser                                                *)
(***************************************************************************)

\* The rows of the input text are all complete rows under a header
AllComplete ==
    /\ mmlsHeader
    /\ \A i \in 1..Len(mmlsKinds) : mmlsKinds[i] \in CompleteKinds

KindDescription(kind) ==
    CASE kind = "meta" -> D_Primary
      [] kind = "unalloc" -> D_Unalloc
      [] kind = "fs" -> D_Fat
      [] OTHER -> <<>>

\* The number of colon-tagged rows among the first n rows
FsRowsBefore(n) == Cardinality({ i \in 1..n : mmlsKinds[i] \in FsKinds })

\* C10: the k-th colon-tagged row (from 0) gets the description suffix
\* "_fs<k>"; rows without a colon-tagged type get no suffix, and the counter
\* equals the number of colon-tagged rows parsed so far.
C10_FsSuffixes ==
    mmlsHeader =>
        /\ \A j \in 1..Len(mmlsSt.info) :
              mmlsSt.info[j].Description =
                  IF mmlsKinds[j] \in FsKinds
                  THEN KindDescription(mmlsKinds[j]) \o S_fs \o DecStr(FsRowsBefore(j - 1))
                  ELSE KindDescription(mmlsKinds[j])
        /\ mmlsSt.partitionCounter = FsRowsBefore(Len(mmlsSt.info))

\* Two colon-tagged rows with a Meta row and a plain row around them are parsed
C10_Witness ==
    /\ mmlsHeader
    /\ mmlsPc = "returned"
    /\ mmlsSt.partitionCounter >= 2
    /\ \E i, j \in 1..Len(mmlsSt.info) :
          /\ i < j
          /\ mmlsKinds[i] \in {"unalloc", "meta", "nodesc"}
          /\ mmlsKinds[j] = "fs"

\* The tokens of row j of the text, as line.strip().split(" ") gives them
RowTokens(j) == SplitOn(Strip(RowLine(mmlsKinds[j], j - 1)), " ")

\* Whether a sequence of characters ends with the given suffix
EndsWith(s, suffix) ==
    /\ Len(suffix) <= Len(s)
    /\ SubSeq(s, Len(s) - Len(suffix) + 1, Len(s)) = suffix

\* C11: a parsed row has FileSystem "Yes" exactly when its third token is
\* not "Meta" and contains ":", and a "Meta" row has FileSystem "No"; a
\* Meta row followed by a colon-tagged row parses to two records, the
\* second with FileSystem "Yes" and a description ending in "_fs0".
C11_FileSystemFlag ==
    mmlsHeader =>
        /\ \A j \in 1..Len(mmlsSt.info) :
              /\ mmlsSt.info[j].FileSystem = "Yes" <=>
                     (RowTokens(j)[3] # S_Meta /\ \E k \in 1..Len(RowTokens(j)[3]) :
                                                      RowTokens(j)[3][k] = ":")
              /\ RowTokens(j)[3] = S_Meta => mmlsSt.info[j].FileSystem = "No"
        /\ (mmlsKinds = <<"meta", "fs">> /\ mmlsPc = "returned") =>
              /\ Len(mmlsSt.info) = 2
              /\ mmlsSt.info[2].FileSystem = "Yes"
              /\ EndsWith(mmlsSt.info[2].Description, S_fs \o <<"0">>)

\* The parse of a Meta row followed by a colon-tagged row has returned
C11_Witness ==
    /\ mmlsHeader
    /\ mmlsKinds = <<"meta", "fs">>
    /\ mmlsPc = "returned"
    /\ mmlsSt.info[1].FileSystem = "No"

\* Row j lacks a token that its shape indexes (start, end or length)
TooFewTokens(j) ==
    \/ Len(RowTokens(j)) < 12
    \/ RowTokens(j)[3] = S_Meta /\ Len(RowTokens(j)) < 15

\* C12: when a row after the header has too few tokens for its shape, the
\* call never returns a list: it ends in the error, whatever rows came
\* before the malformed one.
C12_MalformedRowAborts ==
    (mmlsHeader /\ \E j \in 1..Len(mmlsKinds) : TooFewTokens(j)) =>
        /\ mmlsPc # "returned"
        /\ mmlsPos = Len(mmlsF) => mmlsSt.err

\* The call was left by the error at a malformed row after it had built
\* the records of two rows before it
C12_Witness ==
    /\ mmlsHeader
    /\ mmlsPc = "raised"
    /\ Len(mmlsSt.info) = 2
    /\ TooFewTokens(3)
    /\ mmlsKinds[3] = "short"

\* C13: a text without a header row is a parse error: the call does not
\* return a list for it.
C13_NoHeaderIsError == ~mmlsHeader => mmlsPc # "returned"

\* The number of rows the loop has gone through in a text with a header
\* (the units line, the blank line and the header come first)
RowsRead == IF mmlsPos > 3 THEN mmlsPos - 3 ELSE 0

\* C22: after the header, as long as the rows read are empty lines or rows
\* with all the tokens of their shape, the parse has not aborted and holds
\* one record for each non-empty row read and none for an empty line.
C22_EmptyLineSkipped ==
    (mmlsHeader /\ \A i \in 1..RowsRead : mmlsKinds[i] \in CompleteKinds \cup {"nodesc", "empty"}) =>
        /\ ~mmlsSt.err
        /\ Len(mmlsSt.info) = Cardinality({ i \in 1..RowsRead : mmlsKinds[i] # "empty" })

(***************************************************************************)
(* getFilesTree (src/main.py 161-214)                                      *)
(*                                                                         *)
(* A dictionary is a function from paths to nodes; a node is a record of   *)
(* its 'Files' list and its other keys (Kids), the attached child entries. *)
(* The fold only ever changes nodes that are still top-level keys of dir,  *)
(* so storing the child node by value is what the reference assignment     *)
(* dir[d][sub] = dir[sub] yields; a lookup of a deleted key is KeyError.   *)
(***************************************************************************)

MaxDirs == 4
MaxFiles == 1

sep == "/"

S_Root == <<"r">>

\* Directory names; the second has the first as a string prefix
DirNames == {<<"a">>, <<"a","b">>, <<"c">>}

\* os.path.join(top, name)
PathJoin(top, name) == top \o <<sep>> \o name

\* The directory sets made of the root and at most n directories below it
RECURSIVE TreesOf(_)
TreesOf(n) ==
    IF n = 0 THEN {{S_Root}}
    ELSE LET prev == TreesOf(n - 1)
         IN  prev \cup UNION { { T \cup {PathJoin(q, nm)} : q \in T, nm \in DirNames }
                               : T \in prev }

\* The file systems walked
FileSystems == TreesOf(MaxDirs)

\* The subdirectories of top in file system T
SubDirs(T, top) == { q \in T : \E nm \in DirNames : q = PathJoin(top, nm) }

\* The orders in which listdir may give the members of S
Listings(S) ==
    { o \in [1..Cardinality(S) -> S] : \A i, j \in 1..Cardinality(S) : o[i] = o[j] => i = j }

\* {}
EmptyDict == [x \in {} |-> x]

\* No dictionary has been returned yet
NoDir == [built |-> FALSE, dir |-> EmptyDict]

\* filenames of a directory: n files named 0, 1, ...
FileNames(n) == [k \in 1..n |-> DecStr(k - 1)]

\* dir[dirpath] as the walk loop leaves it
WalkNode(dirpath, filenames) ==
    [Files |-> [k \in 1..Len(filenames) |-> dirpath \o <<sep>> \o filenames[k]],
     Kids  |-> EmptyDict]

\* directories.reverse()
Reverse(l) == [i \in 1..Len(l) |-> l[Len(l) + 1 - i]]

\* x in l, for a list l
InList(l, x) == \E i \in 1..Len(l) : l[i] = x

\* DictDel that deletes nothing
DictDel_Keep(dict, k) == dict

\* del dict[k]
DictDel(dict, k) == [x \in DOMAIN dict \ {k} |-> dict[x]]

\* dict[k] = v
DictSet(dict, k, v) == [x \in DOMAIN dict \cup {k} |-> IF x = k THEN v ELSE dict[x]]

\* The test that makes sub a child of d
IsChildOf(sub, d) == StartsWith(sub, d) /\ sub # d

\* FoldPair without the test "sub not in done"
FoldPair_NoDoneTest(st, d, sub) ==
    IF st.err \/ ~IsChildOf(sub, d) THEN st
    ELSE IF sub \notin DOMAIN st.dir \/ d \notin DOMAIN st.dir
         THEN [st EXCEPT !.err = TRUE]
         ELSE [st EXCEPT
                 !.dir  = DictDel(
                            DictSet(st.dir, d,
                                    [st.dir[d] EXCEPT !.Kids = DictSet(@, sub, st.dir[sub])]),
                            sub),
                 !.done = Append(@, sub)]

\* The body of the inner loop for one pair (d, sub); st is [dir, done, err]
FoldPair(st, d, sub) ==
    IF st.err \/ InList(st.done, sub) \/ ~IsChildOf(sub, d) THEN st
    ELSE IF sub \notin DOMAIN st.dir \/ d \notin DOMAIN st.dir
         THEN [st EXCEPT !.err = TRUE]
         ELSE [st EXCEPT
                 !.dir  = DictDel(
                            DictSet(st.dir, d,
                                    [st.dir[d] EXCEPT !.Kids = DictSet(@, sub, st.dir[sub])]),
                            sub),
                 !.done = Append(@, sub)]

\* "for sub in directories" from position j on, for one d
RECURSIVE FoldInner(_, _, _, _)
FoldInner(st, d, subs, j) ==
    IF j > Len(subs) THEN st ELSE FoldInner(FoldPair(st, d, subs[j]), d, subs, j + 1)

\* One iteration of "for (dirpath, dirnames, filenames) in walk(path)": walk
\* yields the next directory and will descend into its subdirectories in the
\* order listdir gave them
WalkStep ==
    /\ treePc = "walk"
    /\ walkStack # <<>>
    /\ LET dirpath == Head(walkStack)
       IN  /\ directories' = Append(directories, dirpath)
           /\ dir' = DictSet(dir, dirpath, WalkNode(dirpath, FileNames(fsFiles)))
           /\ \E o \in Listings(SubDirs(fsDirs, dirpath)) :
                  walkStack' = o \o Tail(walkStack)
    /\ UNCHANGED <<fsDirs, fsFiles, done, foldI, treePc, firstDir>>
    /\ UNCHANGED <<mmlsVars, appVars, carveVars, sessVars, toolVars>>

\* The walk is over: directories.reverse(); done = []
WalkEnd ==
    /\ treePc = "walk"
    /\ walkStack = <<>>
    /\ directories' = Reverse(directories)
    /\ done' = <<>>
    /\ foldI' = 0
    /\ treePc' = "fold"
    /\ UNCHANGED <<fsDirs, fsFiles, walkStack, dir, firstDir>>
    /\ UNCHANGED <<mmlsVars, appVars, carveVars, sessVars, toolVars>>

\* One iteration of "for d in directories", its inner loop included
FoldDir ==
    /\ treePc = "fold"
    /\ foldI < Len(directories)
    /\ LET st == FoldInner([dir |-> dir, done |-> done, err |-> FALSE],
                           directories[foldI + 1], directories, 1)
       IN  /\ dir' = st.dir
           /\ done' = st.done
           /\ treePc' = IF st.err THEN "KeyError" ELSE "fold"
    /\ foldI' = foldI + 1
    /\ UNCHANGED <<fsDirs, fsFiles, walkStack, directories, firstDir>>
    /\ UNCHANGED <<mmlsVars, appVars, carveVars, sessVars, toolVars>>

\* return dir
FoldReturn ==
    /\ treePc = "fold"
    /\ foldI = Len(directories)
    /\ treePc' = "returned"
    /\ UNCHANGED <<fsDirs, fsFiles, walkStack, directories, dir, done, foldI, firstDir>>
    /\ UNCHANGED <<mmlsVars, appVars, carveVars, sessVars, toolVars>>

\* getFilesTree is called again on the unchanged directory
BuildAgain ==
    /\ treePc = "returned"
    /\ firstDir = NoDir
    /\ firstDir' = [built |-> TRUE, dir |-> dir]
    /\ walkStack' = <<S_Root>>
    /\ directories' = <<>>
    /\ dir' = EmptyDict
    /\ done' = <<>>
    /\ foldI' = 0
    /\ treePc' = "walk"
    /\ UNCHANGED <<fsDirs, fsFiles>>
    /\ UNCHANGED <<mmlsVars, appVars, carveVars, sessVars, toolVars>>

TreeNext == WalkStep \/ WalkEnd \/ FoldDir \/ FoldReturn \/ BuildAgain

(***************************************************************************)
(* Properties of getFilesTree                                              *)
(***************************************************************************)

\* The (parent, child) pairs of a dictionary, all levels
RECURSIVE Edges(_)
Edges(dict) ==
    UNION { { <<k, c>> : c \in DOMAIN dict[k].Kids } \cup Edges(dict[k].Kids)
            : k \in DOMAIN dict }

\* dict restricted to its keys other than k
Without(dict, k) == [x \in DOMAIN dict \ {k} |-> dict[x]]

\* The number of places where path q is a key, all levels
RECURSIVE KeyCount(_, _)
KeyCount(dict, q) ==
    IF DOMAIN dict = {} THEN 0
    ELSE LET k == CHOOSE x \in DOMAIN dict : TRUE
         IN  (IF k = q THEN 1 ELSE 0) + KeyCount(dict[k].Kids, q)
               + KeyCount(Without(dict, k), q)

\* The number of entries equal to file f in the 'Files' lists, all levels
RECURSIVE FileCount(_, _)
FileCount(dict, f) ==
    IF DOMAIN dict = {} THEN 0
    ELSE LET k == CHOOSE x \in DOMAIN dict : TRUE
         IN  Cardinality({ i \in 1..Len(dict[k].Files) : dict[k].Files[i] = f })
               + FileCount(dict[k].Kids, f) + FileCount(Without(dict, k), f)

\* All keys of a dictionary, all levels
RECURSIVE AllKeys(_)
AllKeys(dict) == DOMAIN dict \cup UNION { AllKeys(dict[k].Kids) : k \in DOMAIN dict }

\* The files the walk finds
WalkedFiles ==
    { q \o <<sep>> \o FileNames(fsFiles)[k] : q \in fsDirs, k \in 1..fsFiles }

\* C6: in the returned dictionary every walked directory is a key at exactly
\* one place (top level or under one node) and no other key exists, and every
\* walked file is in the 'Files' list of exactly one node, once.
C6_EachOnce ==
    treePc = "returned" =>
        /\ AllKeys(dir) = fsDirs
        /\ \A q \in fsDirs : KeyCount(dir, q) = 1
        /\ \A f \in WalkedFiles : FileCount(dir, f) = 1

\* A build has returned a dictionary nested two levels deep, with files, for
\* a directory holding both a and ab
C6_Witness ==
    /\ treePc = "returned"
    /\ fsFiles >= 1
    /\ {PathJoin(S_Root, <<"a">>), PathJoin(S_Root, <<"a","b">>)} \subseteq fsDirs
    /\ \E e1, e2 \in Edges(dir) : e1[2] = e2[1]

\* C7: two builds of the same unchanged directory give the same nesting,
\* whatever order the walks listed the subdirectories in.
C7_SameNesting ==
    (treePc = "returned" /\ firstDir.built) =>
        /\ DOMAIN firstDir.dir = DOMAIN dir
        /\ Edges(firstDir.dir) = Edges(dir)

\* q is a path ancestor of c: c continues q with a separator
IsAncestor(q, c) == StartsWith(c, q \o <<sep>>)

\* C8: a directory is nested only under a true path ancestor.
C8_OnlyUnderAncestors ==
    treePc = "returned" => \A e \in Edges(dir) : IsAncestor(e[1], e[2])

\* The elements of a list
Elems(l) == { l[i] : i \in 1..Len(l) }

\* C28: the fold never looks up an entry that was attached elsewhere and
\* deleted: no KeyError ends it; the keys of the flat map are the walked
\* directories that are not done; and when the turn of a directory comes
\* that is no longer in the flat map, every directory that would be
\* attached to it is done already, so neither dir[d] nor dir[sub] is read
\* for it.
C28_LookupsHit ==
    /\ treePc # "KeyError"
    /\ treePc = "fold" =>
          /\ DOMAIN dir = Elems(directories) \ Elems(done)
          /\ foldI < Len(directories) =>
                LET d == directories[foldI + 1]
                IN  d \notin DOMAIN dir =>
                        \A sub \in Elems(directories) : IsChildOf(sub, d) => InList(done, sub)

\* The fold is past the turn of a directory that had been attached to
\* another node and deleted before, and that has directories below it
C28_Witness ==
    /\ treePc = "fold"
    /\ foldI >= 1
    /\ directories[foldI] \notin DOMAIN dir
    /\ \E sub \in Elems(directories) : IsChildOf(sub, directories[foldI])
    /\ \E k \in foldI + 1..Len(directories) : directories[k] \in DOMAIN dir

(***************************************************************************)
(* CarveThread.run (src/main.py 308-389)                                   *)
(*                                                                         *)
(* A message text is kept as the tuple of the pieces the code              *)
(* concatenates.  A queue entry and a console line also carry the thread   *)
(* that produced them (0: the orchestrator), which the program does not    *)
(* store; the properties use it to tell the jobs' messages apart.          *)
(***************************************************************************)

S_records == <<"r","e","c","o","r","d","s">>
S_FsMarker ==
    <<"F","i","l","e"," ","S","y","s","t","e","m"," ","T","y","p","e",":"," ">>

\* Branch whose nested test looks for "records" in stderr
Branch_NestedStderr(stdout, stderr) ==
    IF stdout # <<>>
    THEN IF Contains(stdout, S_records) THEN "stdout_records"
         ELSE IF stderr # <<>>
              THEN IF Contains(stderr, S_records) THEN "nested_records" ELSE "nested_none"
              ELSE "stdout_only_failure"
    ELSE IF stderr # <<>>
         THEN IF Contains(stderr, S_records) THEN "stderr_records" ELSE "stderr_failure"
         ELSE "empty_failure"

\* The branches of the classification at lines 333-370
Branch(stdout, stderr) ==
    IF stdout # <<>>
    THEN IF Contains(stdout, S_records) THEN "stdout_records"
         ELSE IF stderr # <<>>
              THEN IF Contains(stdout, S_records) THEN "nested_records" ELSE "nested_none"
              ELSE "stdout_only_failure"
    ELSE IF stderr # <<>>
         THEN IF Contains(stderr, S_records) THEN "stderr_records" ELSE "stderr_failure"
         ELSE "empty_failure"

\* The branches that set success = True
SuccessBranches == {"stdout_records", "nested_records", "stderr_records"}

\* The branches that put "Failure: <name>" on the queue
FailureBranches == {"stdout_only_failure", "stderr_failure", "empty_failure"}

\* str.splitlines()
SplitLines(text) == SplitOn(text, "\n")

\* fsstatLines that goes on to the last line with the marker
RECURSIVE fsstatLines_Last(_)
fsstatLines_Last(lines) ==
    IF lines = <<>> THEN None
    ELSE LET indx == Find(lines[Len(lines)], S_FsMarker)
         IN  IF indx > -1 THEN Strip(PyFrom(lines[Len(lines)], indx + Len(S_FsMarker)))
             ELSE fsstatLines_Last(SubSeq(lines, 1, Len(lines) - 1))

\* fsstatParser(f): the remainder of the first line with the marker, or None
RECURSIVE fsstatLines(_)
fsstatLines(lines) ==
    IF lines = <<>> THEN None
    ELSE LET indx == Find(Head(lines), S_FsMarker)
         IN  IF indx > -1 THEN Strip(PyFrom(Head(lines), indx + Len(S_FsMarker)))
             ELSE fsstatLines(Tail(lines))

fsstatParser(f) == IF f = <<>> THEN None ELSE fsstatLines(SplitLines(f))

\* The registry entry of index i (0-based, as in the program)
Part(i) == listOfPartitions[i + 1]

\* self.path + "/" + name
OutPath(folder, name) == folder \o <<"/">> \o name

\* A queue entry
Msg(t, text, deli) == [text |-> text, deli |-> deli, job |-> t]

\* The console after insertCommand(text, deli) run by w, for the job of msg
Inserted(con, msg, w) ==
    Append(con, [text |-> msg.text, deli |-> msg.deli, job |-> msg.job, by |-> w])

\* The copier's (stdout, stderr) pairs
S_1rec == <<"1"," ">> \o S_records
S_x    == <<"x">>
DdOutputs ==
    { <<S_1rec, <<>>>>, <<<<>>, <<>>>>, <<<<>>, S_1rec>>,
      <<S_x, S_1rec>>, <<S_x, <<>>>>, <<<<>>, S_x>> }

\* The prober's (stdout, stderr) pairs
S_FsText == S_x \o <<"\n">> \o S_FsMarker \o <<"F","A","T">> \o <<"\n">> \o S_FsMarker \o S_x
FsstatOutputs == { <<S_FsText, <<>>>>, <<S_x, <<>>>>, <<<<>>, S_x>> }

\* A thread as the constructor leaves it
NewThread(pos) ==
    [pos |-> pos, pc |-> "created", stdout |-> <<>>, stderr |-> <<>>,
     branch |-> "", success |-> FALSE]

\* What a step of a carve run leaves alone
outsideCarve == <<mmlsVars, treeVars, sessVars, toolVars>>

\* queue.put by thread t
Put(t, text, deli) ==
    /\ cmdsQueue' = Append(cmdsQueue, Msg(t, text, deli))
    /\ emitted' = [emitted EXCEPT ![t] = Append(@, Msg(t, text, deli))]

ThreadName(t) == Part(threads[t].pos).Name

\* line 317: the "Attempting" message
T_Begin(t) ==
    /\ threads[t].pc = "begin"
    /\ Put(t, <<"Attempting to carve partition ", ThreadName(t), "...">>, "\t")
    /\ threads' = [threads EXCEPT ![t].pc = "popen"]
    /\ UNCHANGED <<appVars, orchPc, outputFolderPath, sumI, summary>>
    /\ UNCHANGED outsideCarve

\* lines 320-325: start the copier and put its command line
T_Popen(t) ==
    /\ threads[t].pc = "popen"
    /\ Put(t, <<"dd", OutPath(outputFolderPath, ThreadName(t)),
                Part(threads[t].pos).Start, Part(threads[t].pos).Length>>, "$")
    /\ threads' = [threads EXCEPT ![t].pc = "communicate"]
    /\ UNCHANGED <<appVars, orchPc, outputFolderPath, sumI, summary>>
    /\ UNCHANGED outsideCarve

\* lines 326-370 up to the queue message: the copier exits with some output
\* and the job classifies it
T_Classify(t) ==
    /\ threads[t].pc = "communicate"
    /\ \E out \in DdOutputs :
         LET b == Branch(out[1], out[2])
         IN  /\ threads' = [threads EXCEPT
                              ![t].stdout = out[1], ![t].stderr = out[2],
                              ![t].branch = b,
                              ![t].pc = IF b \in SuccessBranches THEN "mark" ELSE "probe"]
             /\ console' = IF b = "stdout_records"
                           THEN Inserted(console, Msg(t, <<"Success!">>, "\t"), t)
                           ELSE console
             /\ IF b \in SuccessBranches
                THEN Put(t, <<"Success: ", ThreadName(t)>>, "\t")
                ELSE IF b \in FailureBranches
                     THEN Put(t, <<"Failure: ", ThreadName(t)>>, "\t")
                     ELSE UNCHANGED <<cmdsQueue, emitted>>
    /\ UNCHANGED <<listOfPartitions, partitionsToUse, recoverFilesButton, carveFilesButton,
                   orchPc, outputFolderPath, sumI, summary>>
    /\ UNCHANGED outsideCarve

\* Marked that marks every entry of the registry
Marked_All(reg, pos, outPath) ==
    [j \in 1..Len(reg) |-> [reg[j] EXCEPT !.Carved = "Yes", !.Path = outPath]]

\* Marked that sets the flag and leaves the path
Marked_NoPath(reg, pos, outPath) ==
    [reg EXCEPT ![pos + 1].Carved = "Yes"]

\* The registry after a successful job of index pos marks its entry
Marked(reg, pos, outPath) ==
    [reg EXCEPT ![pos + 1].Carved = "Yes", ![pos + 1].Path = outPath]

\* success = True and the two registry writes of a success branch
T_Mark(t) ==
    /\ threads[t].pc = "mark"
    /\ listOfPartitions' =
           Marked(listOfPartitions, threads[t].pos, OutPath(outputFolderPath, ThreadName(t)))
    /\ threads' = [threads EXCEPT ![t].success = TRUE, ![t].pc = "probe"]
    /\ UNCHANGED <<partitionsToUse, recoverFilesButton, carveFilesButton, console,
                   orchPc, outputFolderPath, cmdsQueue, sumI, summary, emitted>>
    /\ UNCHANGED outsideCarve

\* line 373 for a partition without a filesystem, and line 389
T_SkipProbe(t) ==
    /\ threads[t].pc = "probe"
    /\ Part(threads[t].pos).FileSystem # "Yes"
    /\ threads' = [threads EXCEPT ![t].pc = "done"]
    /\ UNCHANGED <<appVars, orchPc, outputFolderPath, cmdsQueue, sumI, summary, emitted>>
    /\ UNCHANGED outsideCarve

\* lines 373-375: start the prober and put its command line
T_FsPopen(t) ==
    /\ threads[t].pc = "probe"
    /\ Part(threads[t].pos).FileSystem = "Yes"
    /\ Put(t, <<"fsstat", OutPath(outputFolderPath, ThreadName(t))>>, "$")
    /\ threads' = [threads EXCEPT ![t].pc = "fscommunicate"]
    /\ UNCHANGED <<appVars, orchPc, outputFolderPath, sumI, summary>>
    /\ UNCHANGED outsideCarve

\* lines 376-389: the prober exits; the type is stored and reported.  With
\* output that lacks the marker the type is None, and "FSType: " + None
\* raises TypeError after the store: the thread ends there.
T_FsResult(t) ==
    /\ threads[t].pc = "fscommunicate"
    /\ \E out \in FsstatOutputs :
         IF out[1] # <<>>
         THEN LET type == fsstatParser(out[1])
              IN  /\ listOfPartitions' =
                         [listOfPartitions EXCEPT ![threads[t].pos + 1].FSType = type]
                  /\ IF type = None
                     THEN /\ threads' = [threads EXCEPT ![t].pc = "TypeError"]
                          /\ UNCHANGED <<cmdsQueue, emitted>>
                     ELSE /\ threads' = [threads EXCEPT ![t].pc = "done"]
                          /\ Put(t, <<"FSType: ", type>>, "\t")
         ELSE /\ Put(t, <<"FSType: ", out[2]>>, "\t")
              /\ threads' = [threads EXCEPT ![t].pc = "done"]
              /\ UNCHANGED listOfPartitions
    /\ UNCHANGED <<partitionsToUse, recoverFilesButton, carveFilesButton, console,
                   orchPc, outputFolderPath, sumI, summary>>
    /\ UNCHANGED outsideCarve

\* Alive that leaves out a thread that waits for its external process
Alive_Running(t) == threads[t].pc \in {"begin", "popen", "mark", "probe"}

\* The threads that count in threading.activeCount() besides the main thread
Alive(t) == threads[t].pc \notin {"created", "done", "TypeError"}
ActiveJobs == Cardinality({ t \in 1..Len(threads) : Alive(t) })

(***************************************************************************)
(* getMd5 (src/main.py 251-275) and App.carvePartitions (831-928)          *)
(***************************************************************************)

\* The hash tool's (stdout, stderr) pairs
S_Digest == <<"d","4","1","d">>
Md5Outputs == { <<S_Digest \o <<" "," ">> \o S_x, <<>>>>, <<<<>>, S_x>> }

\* getMd5's return value for the tool's stdout: the first token, or "" after
\* the error box
getMd5(stdout) == IF stdout # <<>> THEN SplitOn(stdout, " ")[1] ELSE <<>>

\* The folders askdirectory may return; the empty one is a cancelled dialog
S_OutFolder == <<"/","o">>
Folders == {<<>>, S_OutFolder}

\* The locals succ, err, succMsg, errMsg, fsCarved before the summary loop;
\* the two messages are kept as the lists of indices whose description
\* they hold
NoSummary == [succ |-> 0, err |-> 0, succList |-> <<>>, errList |-> <<>>, fsCarved |-> FALSE]

\* Lines 843-869: the Carve! button; the folder dialog; the first console line
O_Start ==
    /\ orchPc = "pressed"
    /\ \E folder \in Folders :
         /\ outputFolderPath' = folder
         /\ IF folder = <<>>
            THEN /\ orchPc' = "returned"
                 /\ UNCHANGED console
            ELSE /\ orchPc' = IF partitionsToUse = <<>> THEN "drain" ELSE "spawn"
                 /\ console' = Inserted(console,
                                  Msg(0, <<"Carving ", DecStr(Len(partitionsToUse)),
                                           " partitions...">>, "\t"), 0)
    /\ threads' = <<>>
    /\ cmdsQueue' = <<>>
    /\ emitted' = <<>>
    /\ sumI' = 0
    /\ summary' = NoSummary
    /\ UNCHANGED <<listOfPartitions, partitionsToUse, recoverFilesButton, carveFilesButton>>
    /\ UNCHANGED outsideCarve

\* Lines 873-878: one iteration; the thread is created and started
O_Spawn ==
    /\ orchPc = "spawn"
    /\ LET i == partitionsToUse[Len(threads) + 1]
       IN  threads' = Append(threads, [NewThread(i) EXCEPT !.pc = "begin"])
    /\ emitted' = Append(emitted, <<>>)
    /\ orchPc' = IF Len(threads) + 1 = Len(partitionsToUse) THEN "drain" ELSE "spawn"
    /\ UNCHANGED <<appVars, outputFolderPath, cmdsQueue, sumI, summary>>
    /\ UNCHANGED outsideCarve

\* GetAndInsert that drops the entry it took
GetAndInsert_Drop ==
    /\ cmdsQueue # <<>>
    /\ console' = console
    /\ cmdsQueue' = Tail(cmdsQueue)

\* cmd = cmdsQueue.get(); self.insertCommand(cmd['text'], cmd['deli'])
GetAndInsert ==
    /\ cmdsQueue # <<>>
    /\ console' = Inserted(console, Head(cmdsQueue), 0)
    /\ cmdsQueue' = Tail(cmdsQueue)

\* Lines 881-886: one iteration that finds a message (an iteration that
\* finds the queue empty changes nothing)
O_Drain ==
    /\ orchPc = "drain"
    /\ ActiveJobs > 0
    /\ GetAndInsert
    /\ UNCHANGED <<listOfPartitions, partitionsToUse, recoverFilesButton, carveFilesButton,
                   orchPc, outputFolderPath, threads, sumI, summary, emitted>>
    /\ UNCHANGED outsideCarve

\* O_DrainEnd that leaves the loop while threads are running
O_DrainEnd_Early ==
    /\ orchPc = "drain"
    /\ orchPc' = "flush"
    /\ UNCHANGED <<appVars, outputFolderPath, threads, cmdsQueue, sumI, summary, emitted>>
    /\ UNCHANGED outsideCarve

\* Line 881: no thread but the main one is active
O_DrainEnd ==
    /\ orchPc = "drain"
    /\ ActiveJobs = 0
    /\ orchPc' = "flush"
    /\ UNCHANGED <<appVars, outputFolderPath, threads, cmdsQueue, sumI, summary, emitted>>
    /\ UNCHANGED outsideCarve

\* Lines 889-891: one iteration
O_Flush ==
    /\ orchPc = "flush"
    /\ GetAndInsert
    /\ UNCHANGED <<listOfPartitions, partitionsToUse, recoverFilesButton, carveFilesButton,
                   orchPc, outputFolderPath, threads, sumI, summary, emitted>>
    /\ UNCHANGED outsideCarve

\* Line 889: the queue is empty
O_FlushEnd ==
    /\ orchPc = "flush"
    /\ cmdsQueue = <<>>
    /\ orchPc' = "summary"
    /\ UNCHANGED <<appVars, outputFolderPath, threads, cmdsQueue, sumI, summary, emitted>>
    /\ UNCHANGED outsideCarve

\* The summary after the loop body at lines 895-912 for index i
Summed(sm, reg, i) ==
    [succ     |-> IF reg[i + 1].Carved = "Yes" THEN sm.succ + 1 ELSE sm.succ,
     err      |-> IF reg[i + 1].Carved = "Yes" THEN sm.err ELSE sm.err + 1,
     succList |-> IF reg[i + 1].Carved = "Yes" THEN Append(sm.succList, i) ELSE sm.succList,
     errList  |-> IF reg[i + 1].Carved = "Yes" THEN sm.errList ELSE Append(sm.errList, i),
     fsCarved |-> sm.fsCarved \/ reg[i + 1].FileSystem = "Yes"]

\* Lines 894-912: one iteration of the summary loop
O_Summary ==
    /\ orchPc = "summary"
    /\ sumI < Len(partitionsToUse)
    /\ LET i == partitionsToUse[sumI + 1]
       IN  /\ summary' = Summed(summary, listOfPartitions, i)
           /\ IF Part(i).Carved = "Yes"
              THEN /\ console' = Inserted(console,
                                    Msg(0, <<"Partition saved in ", Part(i).Path>>, "\t"), 0)
                   /\ \E out \in Md5Outputs :
                        listOfPartitions' =
                            [listOfPartitions EXCEPT ![i + 1].MD5Sum = getMd5(out[1])]
              ELSE UNCHANGED <<console, listOfPartitions>>
    /\ sumI' = sumI + 1
    /\ UNCHANGED <<partitionsToUse, recoverFilesButton, carveFilesButton,
                   orchPc, outputFolderPath, threads, cmdsQueue, emitted>>
    /\ UNCHANGED outsideCarve

\* The two buttons after lines 914-919
ButtonAfter(sm, old) == IF sm.succ > 0 /\ sm.fsCarved THEN "normal" ELSE old

\* Lines 914-928: the buttons and the summary box
O_Finish ==
    /\ orchPc = "summary"
    /\ sumI = Len(partitionsToUse)
    /\ recoverFilesButton' = ButtonAfter(summary, recoverFilesButton)
    /\ carveFilesButton' = ButtonAfter(summary, carveFilesButton)
    /\ orchPc' = "returned"
    /\ UNCHANGED <<listOfPartitions, partitionsToUse, console,
                   outputFolderPath, threads, cmdsQueue, sumI, summary, emitted>>
    /\ UNCHANGED outsideCarve

\* A step of one of the threads
ThreadStep ==
    \E t \in 1..Len(threads) :
        \/ T_Begin(t)
        \/ T_Popen(t)
        \/ T_Classify(t)
        \/ T_Mark(t)
        \/ T_SkipProbe(t)
        \/ T_FsPopen(t)
        \/ T_FsResult(t)

\* The steps of thread t that wait for nothing outside the program
ThreadLocal(t) ==
    /\ t \in 1..Len(threads)
    /\ (T_Begin(t) \/ T_Popen(t) \/ T_Mark(t) \/ T_SkipProbe(t) \/ T_FsPopen(t))

\* The steps of the main thread inside carvePartitions
Orchestrator ==
    \/ O_Start
    \/ O_Spawn
    \/ O_Drain
    \/ O_DrainEnd
    \/ O_Flush
    \/ O_FlushEnd
    \/ O_Summary
    \/ O_Finish

(***************************************************************************)
(* App.openDiskImage (src/main.py 524-610): the registry after an import   *)
(***************************************************************************)

\* Lines 596-598 for one entry
Imported(rec) ==
    [Slot |-> rec.Slot, CarvedFiles |-> rec.CarvedFiles, FSType |-> rec.FSType,
     Path |-> rec.Path, Start |-> rec.Start, End |-> rec.End, Length |-> rec.Length,
     Description |-> rec.Description, FileSystem |-> rec.FileSystem, Name |-> rec.Name,
     Carved |-> "No", Recovered |-> "No", MD5Sum |-> <<>>]

\* self.listOfPartitions after lines 549 and 591-598
Registry(info) == [i \in 1..Len(info) |-> Imported(info[i])]

\* The rows of the image imported: a plain partition and a filesystem one
ImageKinds == <<"unalloc", "fs">>

ImageRegistry == Registry(mmlsParser(MmlsText(TRUE, ImageKinds)).info)

\* The registry of an image whose two rows are both plain partitions
PlainRegistry == Registry(mmlsParser(MmlsText(TRUE, <<"unalloc", "unalloc">>)).info)

\* The lists the check boxes of a window can build: no index twice
Selections(n) ==
    { sel \in UNION { [1..k -> 0..(n - 1)] : k \in 0..n } :
        \A a, b \in 1..Len(sel) : sel[a] = sel[b] => a = b }

(***************************************************************************)
(* The session: the handlers of App run by the main loop, one at a time.   *)
(* console holds the lines the handler in progress has written, and boxes  *)
(* the message boxes it has shown.                                         *)
(***************************************************************************)

\* The queue entries of job t in a sequence of entries
OfJob(entries, t) ==
    LET Test(e) == e.job = t IN SelectSeq(entries, Test)

\* What a handler of the session leaves alone
outsideSession == <<mmlsVars, treeVars, toolVars>>

\* A console line written by the main thread itself
Line(text, deli) == [text |-> text, deli |-> deli, job |-> 0, by |-> 0]

\* int(s) on a string: Ok tells whether it parses, Value is the number
IsDigit(c) == c \in {"0", "1", "2", "3", "4", "5", "6", "7", "8", "9"}
DigitValue(c) == CHOOSE n \in 0..9 : Digit(n) = <<c>>
RECURSIVE DigitsValue(_)
DigitsValue(s) ==
    IF s = <<>> THEN 0 ELSE 10 * DigitsValue(SubSeq(s, 1, Len(s) - 1)) + DigitValue(s[Len(s)])
IntOk(s) == Strip(s) # <<>> /\ \A k \in 1..Len(Strip(s)) : IsDigit(Strip(s)[k])
\* IntValue that reads every number as 0
IntValue_Zero(s) == 0

IntValue(s) == DigitsValue(Strip(s))

\* The outputs of mmls an import may see: (stdout present, header, rows)
ImageOutputs ==
    { [stdout |-> TRUE,  header |-> TRUE, kinds |-> ImageKinds],
      [stdout |-> TRUE,  header |-> TRUE, kinds |-> <<"fs", "short">>],
      [stdout |-> FALSE, header |-> TRUE, kinds |-> <<>>] }

\* mmlsParser(out.splitlines()) for each of these outputs
ParsedOutput == [out \in ImageOutputs |-> mmlsParser(MmlsText(out.header, out.kinds))]

\* openDiskImage: the file dialog, mmls, the parser, the registry.  A
\* cancelled dialog and an empty stdout leave the registry; so does a call
\* of mmlsParser that raises.
openDiskImage ==
    /\ sessPc = "idle"
    /\ \E cancelled \in BOOLEAN, out \in ImageOutputs :
         IF cancelled \/ ~out.stdout
         THEN UNCHANGED <<listOfPartitions, carvePartitionsButton>>
         ELSE LET parsed == ParsedOutput[out]
              IN  IF parsed.err
                  THEN UNCHANGED <<listOfPartitions, carvePartitionsButton>>
                  ELSE /\ listOfPartitions' = Registry(parsed.info)
                       /\ carvePartitionsButton' =
                              IF Len(parsed.info) > 0 THEN "normal" ELSE carvePartitionsButton
    /\ UNCHANGED <<partitionsToUse, recoverFilesButton, carveFilesButton, console>>
    /\ UNCHANGED <<carveWin, recoverWin, filesWin, dropVar, sessPc, recI, recStdout,
                   outFolder, boxes>>
    /\ UNCHANGED <<carveVars, outsideSession>>

\* carvePartitionsWin: the list is emptied and the window opens
carvePartitionsWin ==
    /\ sessPc = "idle"
    /\ carvePartitionsButton = "normal"
    /\ ~carveWin
    /\ partitionsToUse' = <<>>
    /\ carveWin' = TRUE
    /\ UNCHANGED <<listOfPartitions, recoverFilesButton, carveFilesButton, console>>
    /\ UNCHANGED <<carvePartitionsButton, recoverWin, filesWin, dropVar, sessPc, recI, recStdout,
                   outFolder, boxes>>
    /\ UNCHANGED <<carveVars, outsideSession>>

\* recoverFilesWin: the list is emptied and the window opens
recoverFilesWin ==
    /\ sessPc = "idle"
    /\ recoverFilesButton = "normal"
    /\ ~recoverWin
    /\ partitionsToUse' = <<>>
    /\ recoverWin' = TRUE
    /\ UNCHANGED <<listOfPartitions, recoverFilesButton, carveFilesButton, console>>
    /\ UNCHANGED <<carvePartitionsButton, carveWin, filesWin, dropVar, sessPc, recI, recStdout,
                   outFolder, boxes>>
    /\ UNCHANGED <<carveVars, outsideSession>>

\* list.remove(i)
Removed(list, i) == LET Test(x) == x # i IN SelectSeq(list, Test)

\* carvePartitionsCheck(i): a click on the box of index i in the carve window
carvePartitionsCheck(i) ==
    /\ sessPc = "idle"
    /\ carveWin
    /\ partitionsToUse' = IF InList(partitionsToUse, i) THEN Removed(partitionsToUse, i)
                          ELSE Append(partitionsToUse, i)
    /\ UNCHANGED <<listOfPartitions, recoverFilesButton, carveFilesButton, console>>
    /\ UNCHANGED <<sessVars, carveVars, outsideSession>>

\* recoverFilesCheck(i): a click on the box of index i in the recover
\* window, which has a box for each partition with a filesystem
recoverFilesCheck(i) ==
    /\ sessPc = "idle"
    /\ recoverWin
    /\ Part(i).FileSystem = "Yes"
    /\ partitionsToUse' = IF InList(partitionsToUse, i) THEN Removed(partitionsToUse, i)
                          ELSE IF Part(i).Carved = "Yes" THEN Append(partitionsToUse, i)
                          ELSE partitionsToUse
    /\ UNCHANGED <<listOfPartitions, recoverFilesButton, carveFilesButton, console>>
    /\ UNCHANGED <<sessVars, carveVars, outsideSession>>

\* The Cancel button of an open window
cancelWindow ==
    /\ sessPc = "idle"
    /\ \/ carveWin /\ carveWin' = FALSE /\ UNCHANGED <<recoverWin, filesWin>>
       \/ recoverWin /\ recoverWin' = FALSE /\ UNCHANGED <<carveWin, filesWin>>
       \/ filesWin # "closed" /\ filesWin' = "closed" /\ UNCHANGED <<carveWin, recoverWin>>
    /\ UNCHANGED <<appVars, carveVars, outsideSession>>
    /\ UNCHANGED <<carvePartitionsButton, dropVar, sessPc, recI, recStdout, outFolder, boxes>>

\* The copier's, the prober's and the hash tool's outputs in a session
NoOutput == <<<<>>, <<>>>>
SessionDdOutputs == { <<S_1rec, <<>>>>, <<<<>>, <<>>>>, <<S_x, S_1rec>> }

\* CarveThread.run from its first line to its last for the job t of index
\* pos: st carries the registry, the queue, the lines written to the
\* console directly, and the threads
RunJob(st, pos, folder, dd, fs) ==
    LET t       == Len(st.threads) + 1
        rec     == st.reg[pos + 1]
        outPath == OutPath(folder, rec.Name)
        b       == Branch(dd[1], dd[2])
        probed  == rec.FileSystem = "Yes"
        type    == fsstatParser(fs[1])
        reg1    == IF b \in SuccessBranches THEN Marked(st.reg, pos, outPath) ELSE st.reg
        reg2    == IF probed /\ fs[1] # <<>> THEN [reg1 EXCEPT ![pos + 1].FSType = type]
                   ELSE reg1
        verdict == IF b \in SuccessBranches THEN <<Msg(t, <<"Success: ", rec.Name>>, "\t")>>
                   ELSE IF b \in FailureBranches
                        THEN <<Msg(t, <<"Failure: ", rec.Name>>, "\t")>>
                        ELSE <<>>
        probe   == IF ~probed THEN <<>>
                   ELSE <<Msg(t, <<"fsstat", outPath>>, "$")>> \o
                        (IF fs[1] = <<>> THEN <<Msg(t, <<"FSType: ", fs[2]>>, "\t")>>
                         ELSE IF type = None THEN <<>>
                         ELSE <<Msg(t, <<"FSType: ", type>>, "\t")>>)
    IN  [reg     |-> reg2,
         queue   |-> st.queue \o
                     <<Msg(t, <<"Attempting to carve partition ", rec.Name, "...">>, "\t"),
                       Msg(t, <<"dd", outPath, rec.Start, rec.Length>>, "$")>> \o
                     verdict \o probe,
         direct  |-> IF b = "stdout_records"
                     THEN Inserted(st.direct, Msg(t, <<"Success!">>, "\t"), t)
                     ELSE st.direct,
         threads |-> Append(st.threads,
                       [pos |-> pos, stdout |-> dd[1], stderr |-> dd[2], branch |-> b,
                        success |-> b \in SuccessBranches,
                        pc |-> IF probed /\ fs[1] # <<>> /\ type = None
                               THEN "TypeError" ELSE "done"])]

\* The threads of the selection run one after the other
RECURSIVE RunJobs(_, _, _, _, _)
RunJobs(st, sel, folder, dd, fs) ==
    IF Len(st.threads) = Len(sel) THEN st
    ELSE LET k == Len(st.threads) + 1
         IN  RunJobs(RunJob(st, sel[k], folder, dd[k], fs[k]), sel, folder, dd, fs)

\* The summary loop at lines 894-912 from its entry k on
RECURSIVE SummaryLoop(_, _, _, _)
SummaryLoop(st, sel, md, k) ==
    IF k > Len(sel) THEN st
    ELSE LET i      == sel[k]
             carved == st.reg[i + 1].Carved = "Yes"
         IN  SummaryLoop(
               [reg     |-> IF carved
                            THEN [st.reg EXCEPT ![i + 1].MD5Sum = getMd5(md[k][1])]
                            ELSE st.reg,
                console |-> IF carved
                            THEN Append(st.console,
                                   Line(<<"Partition saved in ", st.reg[i + 1].Path>>, "\t"))
                            ELSE st.console,
                summary |-> Summed(st.summary, st.reg, i)],
               sel, md, k + 1)

\* The box at lines 921-926
SummaryBox(sm) ==
    IF sm.succ > 0 THEN [kind |-> "showinfo", succ |-> sm.succList,
                         err |-> IF sm.err > 0 THEN sm.errList ELSE <<>>]
    ELSE [kind |-> "showerror", succ |-> <<>>, err |-> sm.errList]

\* carvePartitions from the Carve! button to its summary box, which waits
\* for the user: the window goes, the folder is asked, the threads run, the
\* queue is emptied into the console, the summary loop runs and the
\* buttons are set
carvePartitions ==
    /\ sessPc = "idle"
    /\ carveWin
    /\ carveWin' = FALSE
    /\ \E folder \in Folders :
         IF folder = <<>>
         THEN /\ UNCHANGED <<appVars, carveVars>>
              /\ UNCHANGED <<sessPc, boxes>>
         ELSE \E dd \in [1..Len(partitionsToUse) -> SessionDdOutputs],
                 fs \in [1..Len(partitionsToUse) -> FsstatOutputs \cup {NoOutput}],
                 md \in [1..Len(partitionsToUse) -> Md5Outputs] :
                /\ \A k \in 1..Len(partitionsToUse) :
                      (fs[k] = NoOutput) <=> (Part(partitionsToUse[k]).FileSystem # "Yes")
                /\ \E ran \in {RunJobs([reg |-> listOfPartitions, queue |-> <<>>,
                                          direct |-> <<>>, threads |-> <<>>],
                                         partitionsToUse, folder, dd, fs)} :
                   \E sm \in {SummaryLoop(
                                [reg |-> ran.reg,
                                 console |->
                                   <<Line(<<"Carving ", DecStr(Len(partitionsToUse)),
                                            " partitions...">>, "\t")>> \o ran.direct \o
                                   [k \in 1..Len(ran.queue) |->
                                       Inserted(<<>>, ran.queue[k], 0)[1]],
                                 summary |-> NoSummary],
                                partitionsToUse, md, 1)} :
                       /\ listOfPartitions' = sm.reg
                       /\ console' = sm.console
                       /\ summary' = sm.summary
                       /\ threads' = ran.threads
                       /\ emitted' = [t \in 1..Len(ran.threads) |-> OfJob(ran.queue, t)]
                       /\ recoverFilesButton' = ButtonAfter(sm.summary, recoverFilesButton)
                       /\ carveFilesButton' = ButtonAfter(sm.summary, carveFilesButton)
                       /\ boxes' = <<SummaryBox(sm.summary)>>
                /\ outputFolderPath' = folder
                /\ cmdsQueue' = <<>>
                /\ sumI' = Len(partitionsToUse)
                /\ orchPc' = "returned"
                /\ sessPc' = "summaryBox"
                /\ UNCHANGED partitionsToUse
    /\ UNCHANGED <<carvePartitionsButton, recoverWin, filesWin, dropVar, recI, recStdout,
                   outFolder>>
    /\ UNCHANGED outsideSession

\* The summary box is dismissed and carvePartitions returns: its locals go
carvePartitionsReturn ==
    /\ sessPc = "summaryBox"
    /\ sessPc' = "idle"
    /\ orchPc' = "idle"
    /\ outputFolderPath' = <<>>
    /\ threads' = <<>>
    /\ cmdsQueue' = <<>>
    /\ sumI' = 0
    /\ summary' = NoSummary
    /\ emitted' = <<>>
    /\ console' = <<>>
    /\ boxes' = <<>>
    /\ UNCHANGED <<listOfPartitions, partitionsToUse, recoverFilesButton, carveFilesButton>>
    /\ UNCHANGED <<carvePartitionsButton, carveWin, recoverWin, filesWin, dropVar, recI, recStdout,
                   outFolder>>
    /\ UNCHANGED outsideSession

\* str.replace(a, "") for one-character a
Deleted(s, a) == LET Test(c) == c # a IN SelectSeq(s, Test)

\* s.split(sub)[1] where sub occurs in s
SplitSecond(s, sub) ==
    LET rest == PyFrom(s, Find(s, sub) + Len(sub))
    IN  IF Find(rest, sub) = -1 THEN rest ELSE SubSeq(rest, 1, Find(rest, sub))

\* The name recoverFiles builds at line 749
RecoverName(rec, i) ==
    Replace(Deleted(PySlice(rec.Description, 0, Find(rec.Description, <<"(">>)), " "),
            "/", "_") \o <<"_">> \o DecStr(i)

\* The recovery tool's stdout
S_FilesRecovered == <<"F","i","l","e","s"," ","R","e","c","o","v","e","r","e","d",":"," ">>
TskOutputs == { <<>>, S_x, S_FilesRecovered \o <<"0">>, S_FilesRecovered \o <<"2">> }

\* recoverFiles, lines 735-745: the window goes and the folder is asked
recoverFiles ==
    /\ sessPc = "idle"
    /\ recoverWin
    /\ recoverWin' = FALSE
    /\ \E folder \in Folders :
         IF folder = <<>>
         THEN UNCHANGED <<sessPc, outFolder>>
         ELSE /\ sessPc' = "recover"
              /\ outFolder' = folder
    /\ UNCHANGED <<appVars, carveVars, outsideSession>>
    /\ UNCHANGED <<carvePartitionsButton, carveWin, filesWin, dropVar, recI, recStdout, boxes>>

\* recoverFiles, lines 748-827: one entry of the loop.  The tool is run
\* unless the entry's Path is None; a stdout without ":" or without a
\* number after it ends the handler in an exception.
recoverFilesLoop ==
    /\ sessPc = "recover"
    /\ recI < Len(partitionsToUse)
    /\ LET i    == partitionsToUse[recI + 1]
           name == RecoverName(Part(i), i)
           partitionPath == Part(i).Path
           out  == outFolder \o <<"/","o","u","t","_">> \o name
           attempt == Append(console,
                        Line(<<"Attempting to recover files from ", name, " partition...">>, "\t"))
           ran  == Append(attempt, Line(<<"tsk_recover", partitionPath, out>>, "$"))
       IN  IF partitionPath = None
           THEN /\ console' = Append(attempt,
                     Line(<<"Partition not carved. Carve the partition first and try again.">>,
                          "\t"))
                /\ recI' = recI + 1
                /\ recStdout' = None
                /\ UNCHANGED <<listOfPartitions, sessPc, boxes, outFolder>>
           ELSE \E stdout \in TskOutputs :
                  IF stdout = <<>>
                  THEN /\ listOfPartitions' = [listOfPartitions EXCEPT ![i + 1].Recovered = "No"]
                       /\ console' = ran
                       /\ recI' = recI + 1
                       /\ recStdout' = stdout
                       /\ UNCHANGED <<sessPc, boxes, outFolder>>
                  ELSE IF Len(SplitOn(stdout, ":")) < 2 \/ ~IntOk(SplitOn(stdout, ":")[2])
                  THEN /\ sessPc' = "idle"
                       /\ recI' = 0
                       /\ recStdout' = None
                       /\ console' = <<>>
                       /\ boxes' = <<>>
                       /\ outFolder' = <<>>
                       /\ UNCHANGED listOfPartitions
                  ELSE IF IntValue(SplitOn(stdout, ":")[2]) > 0
                  THEN /\ listOfPartitions' = [listOfPartitions EXCEPT ![i + 1].Recovered = "Yes"]
                       /\ console' = Append(ran,
                            Line(<<"Recovering files from selected partitions...">>, "\t"))
                       /\ recI' = recI + 1
                       /\ recStdout' = stdout
                       /\ UNCHANGED <<sessPc, boxes, outFolder>>
                  ELSE /\ boxes' = Append(boxes,
                            <<"No deleted files were recovered for partition: ", Part(i).Name>>)
                       /\ console' = ran
                       /\ recI' = recI + 1
                       /\ recStdout' = stdout
                       /\ UNCHANGED <<listOfPartitions, sessPc, outFolder>>
    /\ UNCHANGED <<partitionsToUse, recoverFilesButton, carveFilesButton>>
    /\ UNCHANGED <<carvePartitionsButton, carveWin, recoverWin, filesWin, dropVar>>
    /\ UNCHANGED <<carveVars, outsideSession>>

\* recoverFiles, line 829: the loop is over and the handler returns
recoverFilesReturn ==
    /\ sessPc = "recover"
    /\ recI = Len(partitionsToUse)
    /\ sessPc' = "idle"
    /\ recI' = 0
    /\ recStdout' = None
    /\ console' = <<>>
    /\ boxes' = <<>>
    /\ outFolder' = <<>>
    /\ UNCHANGED <<listOfPartitions, partitionsToUse, recoverFilesButton, carveFilesButton>>
    /\ UNCHANGED <<carvePartitionsButton, carveWin, recoverWin, filesWin, dropVar>>
    /\ UNCHANGED <<carveVars, outsideSession>>

\* The options of the drop-down at lines 1124-1127: "%d: %s" for each carved
\* partition with a filesystem
RECURSIVE OptionsFrom(_, _)
OptionsFrom(reg, j) ==
    IF j >= Len(reg) THEN <<>>
    ELSE (IF reg[j + 1].FileSystem = "Yes" /\ reg[j + 1].Carved = "Yes"
          THEN <<DecStr(j) \o <<":", " ">> \o reg[j + 1].Description>>
          ELSE <<>>) \o OptionsFrom(reg, j + 1)

\* carveFilesWin: the window opens; with no option, options[0] raises after
\* dropVar was made anew and before the window got its button
carveFilesWin ==
    /\ sessPc = "idle"
    /\ carveFilesButton = "normal"
    /\ filesWin = "closed"
    /\ LET options == OptionsFrom(listOfPartitions, 0)
       IN  IF options = <<>>
           THEN dropVar' = <<>> /\ filesWin' = "bare"
           ELSE dropVar' = options[1] /\ filesWin' = "open"
    /\ UNCHANGED <<appVars, carveVars, outsideSession>>
    /\ UNCHANGED <<carvePartitionsButton, carveWin, recoverWin, sessPc, recI, recStdout,
                   outFolder, boxes>>

\* The file carver's (stdout, stderr) pairs
S_filesCarved == <<"f","i","l","e","s"," ","c","a","r","v","e","d"," ","="," ">>
S_ERROR == <<"E","R","R","O","R">>
ScalpelOutputs ==
    { <<<<>>, S_x>>, <<S_x, <<>>>>,
      <<S_filesCarved \o <<"0", ",">>, <<>>>>,
      <<S_filesCarved \o <<"2", ",">>, <<>>>>,
      <<S_filesCarved \o <<"2", ",">>, S_ERROR>> }

\* The registry after carveFiles saw the carver's output for the partition
\* of the drop-down: the flag is set when the count parses and is not 0
AfterScalpel(reg, partition, out) ==
    IF out[1] = <<>> THEN reg
    ELSE IF out[2] # <<>> /\ Contains(out[2], S_ERROR) THEN reg
    ELSE IF ~Contains(out[1], S_filesCarved) THEN reg
    ELSE LET count == SplitOn(SplitSecond(out[1], S_filesCarved), ",")[1]
         IN  IF IntOk(count) /\ IntValue(count) > 0
             THEN [reg EXCEPT ![partition + 1].CarvedFiles = "Yes"]
             ELSE reg

\* carveFiles: the window goes, the folder is asked, the carver runs on the
\* Path of the partition the drop-down names
carveFiles ==
    /\ sessPc = "idle"
    /\ filesWin = "open"
    /\ filesWin' = "closed"
    /\ \E folder \in Folders, out \in ScalpelOutputs :
         IF folder = <<>> \/ ~IntOk(SplitOn(dropVar, ":")[1])
         THEN UNCHANGED listOfPartitions
         ELSE listOfPartitions' =
                  AfterScalpel(listOfPartitions, IntValue(SplitOn(dropVar, ":")[1]), out)
    /\ UNCHANGED <<partitionsToUse, recoverFilesButton, carveFilesButton, console>>
    /\ UNCHANGED <<carvePartitionsButton, carveWin, recoverWin, dropVar, sessPc, recI, recStdout,
                   outFolder, boxes>>
    /\ UNCHANGED <<carveVars, outsideSession>>

(***************************************************************************)
(* getMd5 (src/main.py 251-275), fsstatParser (144-158) and the job's      *)
(* classification (331-370), each on every tool output of a bounded set    *)
(***************************************************************************)

MaxText == 4
MaxLines == 3

\* The characters of a hash tool's output
HashChars == {"d", " ", "\t"}

\* Every text of up to n of these characters
Texts(n) == UNION { [1..k -> HashChars] : k \in 0..n }

\* The lines of a prober's output: with the marker (at the start, after a
\* blank, or with nothing behind it) and without
S_FAT == <<"F","A","T">>
S_NTFS == <<"N","T","F","S">>
FsLines ==
    { S_x, <<>>, S_FsMarker \o S_FAT, <<" ">> \o S_FsMarker \o <<" ">> \o S_NTFS \o <<" ">>,
      S_FsMarker }

\* The texts of a copier: up to MaxPieces pieces, each "records", another
\* word or a blank
MaxPieces == 2
CopierPieces == {S_records, S_x, <<" ">>}
RECURSIVE CopierTexts(_)
CopierTexts(n) ==
    IF n = 0 THEN {<<>>}
    ELSE CopierTexts(n - 1) \cup { t \o p : t \in CopierTexts(n - 1), p \in CopierPieces }

\* What a step of a helper called on its own leaves alone
outsideTools == <<mmlsVars, treeVars, appVars, carveVars, sessVars>>

\* getMd5 from communicate() to return: the value, and the error box whose
\* first argument is stderr when stdout is empty
GetMd5Call ==
    /\ toolPc = "getMd5"
    /\ toolResult' = getMd5(toolStdout)
    /\ toolBoxes' = IF toolStdout # <<>> THEN <<>> ELSE <<toolStderr>>
    /\ toolPc' = "getMd5 returned"
    /\ UNCHANGED <<toolLines, toolStdout, toolStderr>>
    /\ UNCHANGED outsideTools

\* fsstatParser(stdout)
FsstatParserCall ==
    /\ toolPc = "fsstatParser"
    /\ toolResult' = fsstatParser(toolStdout)
    /\ toolPc' = "fsstatParser returned"
    /\ UNCHANGED <<toolLines, toolStdout, toolStderr, toolBoxes>>
    /\ UNCHANGED outsideTools

\* The classification of CarveThread.run on the copier's two texts
ClassifyCall ==
    /\ toolPc = "classify"
    /\ toolResult' = Branch(toolStdout, toolStderr)
    /\ toolPc' = "classified"
    /\ UNCHANGED <<toolLines, toolStdout, toolStderr, toolBoxes>>
    /\ UNCHANGED outsideTools

ToolsNext == GetMd5Call \/ FsstatParserCall \/ ClassifyCall

(***************************************************************************)
(* Properties of a carve run                                               *)
(***************************************************************************)

\* The entries the orchestrator took off the queue and wrote to the console
Delivered ==
    LET Test(e) == e.by = 0 /\ e.job # 0
        taken == SelectSeq(console, Test)
    IN  [k \in 1..Len(taken) |-> Msg(taken[k].job, taken[k].text, taken[k].deli)]

\* The folder was chosen and the spawn loop is over
Spawned == outputFolderPath # <<>> /\ orchPc \in {"drain", "flush", "summary", "returned"}

\* C3: a carve of K selected partitions starts exactly K jobs, one per
\* selected index, and in every interleaving the messages each job has put
\* on the queue are those delivered to the console followed by those still
\* queued, in the order the job put them; when the drain and the flush are
\* over nothing is queued, so each message was delivered exactly once.
C3_MessagesDelivered ==
    /\ Spawned =>
          /\ Len(threads) = Len(partitionsToUse)
          /\ \A t \in 1..Len(threads) : threads[t].pos = partitionsToUse[t]
    /\ \A t \in 1..Len(threads) :
          OfJob(Delivered, t) \o OfJob(cmdsQueue, t) = emitted[t]
    /\ orchPc \in {"summary", "returned"} => cmdsQueue = <<>>

\* Two jobs ran to their end and the console holds a message of the second
\* job between two of the first
C3_Witness ==
    /\ orchPc = "returned"
    /\ Len(threads) = 2
    /\ \A t \in 1..2 : Len(emitted[t]) >= 3
    /\ \E i, j, k \in 1..Len(Delivered) :
          /\ i < j /\ j < k
          /\ Delivered[i].job = 1 /\ Delivered[j].job = 2 /\ Delivered[k].job = 1

\* The job went through its classification
Classified(t) == threads[t].pc \in {"probe", "fscommunicate", "done", "TypeError"}

\* C1: a job is classified success exactly when "records" occurs in the
\* copier's stdout or in its stderr.
C1_RecordsInEither ==
    \A t \in 1..Len(threads) :
        Classified(t) =>
            (threads[t].success <=>
                 Contains(threads[t].stdout, S_records) \/ Contains(threads[t].stderr, S_records))

\* C17: every line of the console was written by the orchestrator; no
\* carve thread writes to the console itself.
C17_OnlyOrchestratorWrites == \A k \in 1..Len(console) : console[k].by = 0

\* The "Partition saved in" lines of the console, in order
SavedLines ==
    LET Test(e) == e.text[1] = "Partition saved in " IN SelectSeq(console, Test)

\* The selected indices that the summary loop has gone through and found
\* carved, in order
SummedCarved ==
    LET Test(i) == Part(i).Carved = "Yes" IN SelectSeq(SubSeq(partitionsToUse, 1, sumI), Test)

\* C18: the orchestrator is past its drain loop only when every thread has
\* ended; until the summary loop nothing is summed up, announced as saved
\* or hashed; and in the summary loop the orchestrator announces and hashes,
\* one entry after the other, exactly the selected partitions it has gone
\* through whose Carved is "Yes".
C18_SummaryAfterJobs ==
    /\ (orchPc \in {"flush", "summary"} \/ (orchPc = "returned" /\ outputFolderPath # <<>>)) =>
          \A t \in 1..Len(threads) : threads[t].pc \in {"done", "TypeError"}
    /\ orchPc \notin {"summary", "returned"} =>
          /\ summary = NoSummary
          /\ sumI = 0
          /\ SavedLines = <<>>
          /\ \A j \in 1..Len(listOfPartitions) : listOfPartitions[j].MD5Sum = <<>>
    /\ orchPc \in {"summary", "returned"} =>
          /\ SavedLines = [k \in 1..Len(SummedCarved) |->
                              Line(<<"Partition saved in ", Part(SummedCarved[k]).Path>>, "\t")]
          /\ summary.succList = SummedCarved
          /\ \A j \in 1..Len(listOfPartitions) :
                listOfPartitions[j].MD5Sum # <<>> => InList(SummedCarved, j - 1)

\* A run of two jobs has ended: one partition was carved and hashed, the
\* other was not
C18_Witness ==
    /\ orchPc = "returned"
    /\ Len(threads) = 2
    /\ Len(SummedCarved) = 1
    /\ Part(SummedCarved[1]).MD5Sum = S_Digest
    /\ \E t \in 1..2 : ~threads[t].success /\ Part(threads[t].pos).MD5Sum = <<>>

\* Thread t took the step
Stepped(t) == t <= Len(threads') /\ threads'[t] # threads[t]

\* C19: a step of the thread of index i changes no registry entry but that
\* of i, in every interleaving, and no two threads of a run have the same
\* index.
C19_OwnEntryOnly ==
    [][/\ \A t \in 1..Len(threads) :
             Stepped(t) =>
                 \A j \in 1..Len(listOfPartitions) :
                     j # threads[t].pos + 1 => listOfPartitions'[j] = listOfPartitions[j]
       /\ \A t, u \in 1..Len(threads') : threads'[t].pos = threads'[u].pos => t = u
      ]_vars

\* Two threads have both written their entries: both partitions are
\* carved and the type of the one with a filesystem is stored
C19_Witness ==
    /\ Len(threads) = 2
    /\ \A t \in 1..2 : threads[t].success /\ Part(threads[t].pos).Carved = "Yes"
    /\ \E t \in 1..2 : Part(threads[t].pos).FSType = S_FAT

\* C20: the step in which a thread takes the copier's run as a success sets
\* Carved to "Yes" and Path to the folder, "/" and the partition's name; no
\* other step of the thread changes Carved or Path of its entry, so a job
\* that classified failure leaves both as they were; and a thread that has
\* ended has success exactly when its classification was a success branch.
C20_MarkedOnSuccess ==
    [][\A t \in 1..Len(threads) :
          /\ Stepped(t) =>
                LET old == listOfPartitions[threads[t].pos + 1]
                    new == listOfPartitions'[threads[t].pos + 1]
                IN  IF threads'[t].success /\ ~threads[t].success
                    THEN /\ new.Carved = "Yes"
                         /\ new.Path = outputFolderPath \o <<"/">> \o old.Name
                         /\ threads[t].branch \in SuccessBranches
                    ELSE new.Carved = old.Carved /\ new.Path = old.Path
          /\ threads'[t].pc \in {"done", "TypeError"} =>
                (threads'[t].success <=> threads'[t].branch \in SuccessBranches)
      ]_vars

\* One thread has ended with success and its entry marked, another with a
\* failure and its entry as it was
C20_Witness ==
    /\ Len(threads) = 2
    /\ \A t \in 1..2 : threads[t].pc = "done"
    /\ \E t, u \in 1..2 :
          /\ threads[t].success
          /\ Part(threads[t].pos).Path = OutPath(outputFolderPath, Part(threads[t].pos).Name)
          /\ threads[u].branch \in FailureBranches
          /\ Part(threads[u].pos).Carved = "No"
          /\ Part(threads[u].pos).Path = <<>>

\* The outcome messages thread t has put on the queue
Outcomes(t) ==
    LET Test(e) == e.text[1] \in {"Success: ", "Failure: "} IN SelectSeq(emitted[t], Test)

\* C24: a job that is past its classification has put exactly one outcome
\* message on the queue, "Success: <name>" or "Failure: <name>", whatever
\* the copier printed, and the message is "Success" exactly when the job
\* set Carved to "Yes".
C24_OneOutcomeMessage ==
    \A t \in 1..Len(threads) :
        Classified(t) =>
            /\ Len(Outcomes(t)) = 1
            /\ Outcomes(t)[1].text[2] = ThreadName(t)
            /\ Outcomes(t)[1].text[1] = "Success: " <=> threads[t].success

\* The "FSType: ..." messages thread t has put on the queue
TypeMessages(t) ==
    LET Test(e) == e.text[1] = "FSType: " IN SelectSeq(emitted[t], Test)

\* C25: the job of a filesystem partition whose prober has exited has
\* ended normally, whatever the prober printed: the type in its entry is a
\* string and it has put exactly one "FSType: ..." message on the queue.
C25_ProbeEndsNormally ==
    \A t \in 1..Len(threads) :
        (Part(threads[t].pos).FileSystem = "Yes" /\ threads[t].pc \in {"done", "TypeError"}) =>
            /\ threads[t].pc = "done"
            /\ Part(threads[t].pos).FSType # None
            /\ Len(TypeMessages(t)) = 1

\* Thread t is inside communicate(): it waits for the copier or the prober
\* to exit
JobWaiting(t) == t \in 1..Len(threads) /\ threads[t].pc \in {"communicate", "fscommunicate"}

\* C21: in a run whose folder was chosen, the orchestrator reaches its
\* summary if and only if every external process a job waits for exits;
\* with one job waiting for ever the summary is never reached, whatever
\* the other jobs have done.
C21_SummaryIffProcessesExit ==
    <>(orchPc \in {"spawn", "drain"}) =>
        /\ ([]<>~JobWaiting(1) /\ []<>~JobWaiting(2)) => <>(orchPc = "summary")
        /\ <>(orchPc = "summary") => ([]<>~JobWaiting(1) /\ []<>~JobWaiting(2))

\* One job has ended and the queue is drained while the other job still
\* waits for its process: the orchestrator is held in its drain loop
C21_Witness ==
    /\ orchPc = "drain"
    /\ cmdsQueue = <<>>
    /\ \E t, u \in 1..Len(threads) : threads[t].pc = "done" /\ JobWaiting(u)

(***************************************************************************)
(* Properties of a session                                                 *)
(***************************************************************************)

\* The console line of the recovery tool's command for index i
ToolLine(i) ==
    Line(<<"tsk_recover", Part(i).Path,
           outFolder \o <<"/","o","u","t","_">> \o RecoverName(Part(i), i)>>, "$")

\* The console line that tells the user to carve first
MustCarveLine ==
    Line(<<"Partition not carved. Carve the partition first and try again.">>, "\t")

\* C2: for every entry of the selection that recoverFiles has gone through
\* and whose partition is not carved, the recovery tool was not run and the
\* "carve the partition first" line was written.
C2_UncarvedNotRecovered ==
    sessPc = "recover" =>
        \A k \in 1..recI :
            Part(partitionsToUse[k]).Carved # "Yes" =>
                /\ ~InList(console, ToolLine(partitionsToUse[k]))
                /\ InList(console, MustCarveLine)

\* C4: at the summary box of a carve run, a selected partition is in the
\* list of the succeeded exactly when its job of this run was classified
\* success, and every partition whose job failed is in the list of the
\* failed that the box shows.
C4_SummaryOfThisRun ==
    sessPc = "summaryBox" =>
        \A t \in 1..Len(threads) :
            /\ InList(summary.succList, threads[t].pos) <=> threads[t].success
            /\ ~threads[t].success => InList(boxes[1].err, threads[t].pos)

\* Every flag that is "Yes" before the step is "Yes" after it
FlagsForward ==
    /\ Len(listOfPartitions') = Len(listOfPartitions)
    /\ \A i \in 1..Len(listOfPartitions) :
          /\ listOfPartitions[i].Carved = "Yes" => listOfPartitions'[i].Carved = "Yes"
          /\ listOfPartitions[i].Recovered = "Yes" => listOfPartitions'[i].Recovered = "Yes"
          /\ listOfPartitions[i].CarvedFiles = "Yes" => listOfPartitions'[i].CarvedFiles = "Yes"

\* C5: no step of a carve, a recover or a file carve takes one of the flags
\* Carved, Recovered, CarvedFiles of a partition from "Yes" back to "No".
C5_FlagsOnlyForward == [][~openDiskImage => FlagsForward]_vars

\* The step is the entry of recoverFiles' loop for the registry entry i
\* (1-based), a carved partition
RecoverEntry(i) ==
    /\ sessPc = "recover"
    /\ recI' = recI + 1
    /\ partitionsToUse[recI + 1] = i - 1
    /\ listOfPartitions[i].Carved = "Yes"

\* C14: in the loop entry of a selected, carved partition, a tool output
\* with a count above zero sets Recovered to "Yes"; a count of zero shows
\* the "No deleted files were recovered" box, leaves Recovered as it was
\* and lets the loop go on; and Recovered never becomes "Yes" in any other
\* step.
C14_RecoveredOnCount ==
    [][\A i \in 1..Len(listOfPartitions) :
          /\ (RecoverEntry(i) /\ recStdout' = S_FilesRecovered \o <<"2">>) =>
                /\ listOfPartitions'[i].Recovered = "Yes"
                /\ sessPc' = "recover"
          /\ (RecoverEntry(i) /\ recStdout' = S_FilesRecovered \o <<"0">>) =>
                /\ listOfPartitions'[i].Recovered = listOfPartitions[i].Recovered
                /\ boxes' = Append(boxes, <<"No deleted files were recovered for partition: ",
                                            listOfPartitions[i].Name>>)
                /\ sessPc' = "recover"
          /\ (/\ Len(listOfPartitions') = Len(listOfPartitions)
              /\ listOfPartitions[i].Recovered # "Yes"
              /\ listOfPartitions'[i].Recovered = "Yes") =>
                /\ sessPc = "recover"
                /\ partitionsToUse[recI + 1] = i - 1
                /\ recStdout' = S_FilesRecovered \o <<"2">>
      ]_vars

\* The tool reported a count of zero for a carved partition whose files
\* had been recovered before: the box is shown and the flag is still "Yes"
C14_Witness ==
    /\ sessPc = "recover"
    /\ recI >= 1
    /\ recStdout = S_FilesRecovered \o <<"0">>
    /\ Part(partitionsToUse[recI]).Carved = "Yes"
    /\ Part(partitionsToUse[recI]).Recovered = "Yes"
    /\ boxes # <<>>

\* C26: while recoverFiles goes through the selection, every index of it
\* is that of a filesystem partition whose Carved is "Yes", whatever
\* windows were opened and whatever boxes were clicked before Recover!.
C26_RecoverSelectionCarved ==
    sessPc = "recover" =>
        \A k \in 1..Len(partitionsToUse) :
            /\ Part(partitionsToUse[k]).FileSystem = "Yes"
            /\ Part(partitionsToUse[k]).Carved = "Yes"

\* C27: whenever the Recover Deleted Files and the Carve Files buttons are
\* enabled, the registry holds a filesystem partition whose Carved is
\* "Yes", after any imports and carve runs.
C27_EnabledMeansCarvedFs ==
    (recoverFilesButton = "normal" /\ carveFilesButton = "normal") =>
        \E j \in 1..Len(listOfPartitions) :
            listOfPartitions[j].FileSystem = "Yes" /\ listOfPartitions[j].Carved = "Yes"

(***************************************************************************)
(* Properties of getMd5 and fsstatParser                                   *)
(***************************************************************************)

\* The first whitespace-delimited token of a text, "" when it has none
FirstToken(s) ==
    LET t  == LStrip(s)
        ws == { k \in 1..Len(t) : t[k] \in Whitespace }
    IN  IF ws = {} THEN t
        ELSE SubSeq(t, 1, (CHOOSE k \in ws : \A q \in ws : k <= q) - 1)

\* C15: getMd5 returns the first whitespace-delimited token of a non-empty
\* stdout; for an empty stdout it gives no digest and shows the error that
\* carries the tool's stderr.
C15_FirstTokenOrError ==
    toolPc = "getMd5 returned" =>
        IF toolStdout # <<>>
        THEN toolResult = FirstToken(toolStdout)
        ELSE toolResult = <<>> /\ toolBoxes = <<toolStderr>>

\* The lines of FsLines that hold the marker, and what follows it, trimmed
MarkedLines == { S_FsMarker \o S_FAT, <<" ">> \o S_FsMarker \o <<" ">> \o S_NTFS \o <<" ">>,
                 S_FsMarker }
Remainder(line) ==
    CASE line = S_FsMarker \o S_FAT -> S_FAT
      [] line = S_FsMarker -> <<>>
      [] OTHER -> S_NTFS

\* The positions of the lines that hold the marker
MarkedAt == { j \in 1..Len(toolLines) : toolLines[j] \in MarkedLines }

\* C16: fsstatParser returns the trimmed remainder of the first line, in
\* line order, that holds the marker, whatever later lines hold; when no
\* line holds it the call returns None.
C16_FirstMarkedLine ==
    toolPc = "fsstatParser returned" =>
        IF MarkedAt = {} THEN toolResult = None
        ELSE toolResult = Remainder(toolLines[CHOOSE j \in MarkedAt : \A k \in MarkedAt : j <= k])

\* The call returned for a text whose second and third lines both hold the
\* marker, with different remainders
C16_Witness ==
    /\ toolPc = "fsstatParser returned"
    /\ Len(toolLines) = 3
    /\ MarkedAt = {2, 3}
    /\ Remainder(toolLines[2]) # Remainder(toolLines[3])
    /\ toolResult = Remainder(toolLines[2])

\* C23: whatever the copier's two texts are, the classification never
\* takes the success branch nested under "stdout is non-empty, stdout has
\* no 'records', stderr is non-empty"; with these three conditions it
\* takes the branch that reports nothing.
C23_NestedSuccessDead ==
    toolPc = "classified" =>
        /\ toolResult # "nested_records"
        /\ (toolStdout # <<>> /\ ~Contains(toolStdout, S_records) /\ toolStderr # <<>>) =>
               toolResult = "nested_none"

\* The classification was made for a stdout without "records" and a
\* stderr with it: the three conditions hold
C23_Witness ==
    /\ toolPc = "classified"
    /\ toolStdout # <<>>
    /\ ~Contains(toolStdout, S_records)
    /\ Contains(toolStderr, S_records)
    /\ toolResult = "nested_none"

(***************************************************************************)
(* The specifications: each runs one part of the program and leaves the    *)
(* state of the other parts idle.                                          *)
(***************************************************************************)


\* mmlsParser is not running
MmlsIdle ==
    /\ mmlsKinds = <<>>
    /\ mmlsHeader = FALSE
    /\ mmlsF = <<>>
    /\ mmlsPos = 0
    /\ mmlsSt = mmlsStart
    /\ mmlsPc = "idle"

\* getFilesTree is not running
TreeIdle ==
    /\ fsDirs = {}
    /\ fsFiles = 0
    /\ walkStack = <<>>
    /\ directories = <<>>
    /\ dir = EmptyDict
    /\ done = <<>>
    /\ foldI = 0
    /\ treePc = "idle"
    /\ firstDir = NoDir

\* The application as App.__init__ leaves it
AppIdle ==
    /\ listOfPartitions = <<>>
    /\ partitionsToUse = <<>>
    /\ recoverFilesButton = "disabled"
    /\ carveFilesButton = "disabled"
    /\ console = <<>>

\* No window is open and no handler is running
SessIdle ==
    /\ carvePartitionsButton = "disabled"
    /\ carveWin = FALSE
    /\ recoverWin = FALSE
    /\ filesWin = "closed"
    /\ dropVar = None
    /\ sessPc = "idle"
    /\ recI = 0
    /\ recStdout = None
    /\ outFolder = <<>>
    /\ boxes = <<>>

\* No helper is being called on its own
ToolIdle ==
    /\ toolPc = "idle"
    /\ toolLines = <<>>
    /\ toolStdout = <<>>
    /\ toolStderr = <<>>
    /\ toolResult = None
    /\ toolBoxes = <<>>

\* carvePartitions is not running
CarveIdle ==
    /\ orchPc = "idle"
    /\ outputFolderPath = <<>>
    /\ threads = <<>>
    /\ cmdsQueue = <<>>
    /\ sumI = 0
    /\ summary = NoSummary
    /\ emitted = <<>>

MmlsInit ==
    /\ mmlsKinds \in KindSeqs
    /\ mmlsHeader \in BOOLEAN
    /\ mmlsF = MmlsText(mmlsHeader, mmlsKinds)
    /\ mmlsPos = 0
    /\ mmlsSt = mmlsStart
    /\ mmlsPc = "loop"
    /\ TreeIdle
    /\ ToolIdle
    /\ AppIdle
    /\ CarveIdle
    /\ SessIdle

TreeInit ==
    /\ fsDirs \in FileSystems
    /\ fsFiles \in 0..MaxFiles
    /\ walkStack = <<S_Root>>
    /\ directories = <<>>
    /\ dir = EmptyDict
    /\ done = <<>>
    /\ foldI = 0
    /\ treePc = "walk"
    /\ firstDir = NoDir
    /\ MmlsIdle
    /\ AppIdle
    /\ CarveIdle
    /\ SessIdle
    /\ ToolIdle

\* mmlsParser on every partition-lister text of the bounded set
SpecMmls == MmlsInit /\ [][MmlsNext]_vars

\* Carve! was pressed in the selection window of a freshly imported image
CarvePressed ==
    /\ recoverFilesButton = "disabled"
    /\ carveFilesButton = "disabled"
    /\ console = <<>>
    /\ orchPc = "pressed"
    /\ outputFolderPath = <<>>
    /\ threads = <<>>
    /\ cmdsQueue = <<>>
    /\ sumI = 0
    /\ summary = NoSummary
    /\ emitted = <<>>
    /\ carvePartitionsButton = "normal"
    /\ carveWin = FALSE
    /\ recoverWin = FALSE
    /\ filesWin = "closed"
    /\ dropVar = None
    /\ sessPc = "carve"
    /\ recI = 0
    /\ recStdout = None
    /\ outFolder = <<>>
    /\ boxes = <<>>
    /\ MmlsIdle
    /\ TreeIdle
    /\ ToolIdle

CarveNext ==
    \/ O_Start
    \/ O_Spawn
    \/ O_Drain
    \/ O_DrainEnd
    \/ O_Flush
    \/ O_FlushEnd
    \/ O_Summary
    \/ O_Finish
    \/ ThreadStep

\* Carve! is pressed with some selection, after an import
CarveInit ==
    /\ listOfPartitions = ImageRegistry
    /\ partitionsToUse \in Selections(Len(ImageRegistry))
    /\ CarvePressed

\* One carve run: the orchestrator and its threads, every interleaving
SpecCarve == CarveInit /\ [][CarveNext]_vars

\* The same run with its scheduling: the main thread and every job thread
\* keep taking the steps they can take; whether an external process ever
\* exits is left open.  The run is of one job on either partition of the
\* image, or of two jobs on an image of two plain partitions.
CarveLiveInit ==
    /\ \/ /\ listOfPartitions = ImageRegistry
          /\ partitionsToUse \in { sel \in Selections(Len(ImageRegistry)) : Len(sel) <= 1 }
       \/ /\ listOfPartitions = PlainRegistry
          /\ partitionsToUse \in { sel \in Selections(Len(PlainRegistry)) : Len(sel) = 2 }
    /\ CarvePressed

SpecCarveLive ==
    /\ CarveLiveInit
    /\ [][CarveNext]_vars
    /\ WF_vars(Orchestrator)
    /\ \A t \in 1..Len(ImageRegistry) : WF_vars(ThreadLocal(t))

\* getFilesTree, twice, on every file system of the bounded set
SpecTree == TreeInit /\ [][TreeNext]_vars

\* The App as its constructor leaves it
SessionInit ==
    /\ AppIdle
    /\ SessIdle
    /\ CarveIdle
    /\ MmlsIdle
    /\ TreeIdle
    /\ ToolIdle

SessionNext ==
    \/ openDiskImage
    \/ carvePartitionsWin
    \/ recoverFilesWin
    \/ carveFilesWin
    \/ \E i \in 0..(Len(listOfPartitions) - 1) : carvePartitionsCheck(i)
    \/ \E i \in 0..(Len(listOfPartitions) - 1) : recoverFilesCheck(i)
    \/ cancelWindow
    \/ carvePartitions
    \/ carvePartitionsReturn
    \/ recoverFiles
    \/ recoverFilesLoop
    \/ recoverFilesReturn
    \/ carveFiles

\* A session: the handlers in any order the windows and buttons allow
SpecSession == SessionInit /\ [][SessionNext]_vars

\* A helper is about to be called on a tool's output
ToolsInit ==
    /\ \/ /\ toolPc = "getMd5"
          /\ toolLines = <<>>
          /\ toolStdout \in Texts(MaxText)
          /\ toolStderr \in {<<>>, S_x}
       \/ /\ toolPc = "fsstatParser"
          /\ toolLines \in UNION { [1..n -> FsLines] : n \in 0..MaxLines }
          /\ toolStdout = Join(toolLines, <<"\n">>)
          /\ toolStderr = <<>>
       \/ /\ toolPc = "classify"
          /\ toolLines = <<>>
          /\ toolStdout \in CopierTexts(MaxPieces)
          /\ toolStderr \in CopierTexts(MaxPieces)
    /\ toolResult = None
    /\ toolBoxes = <<>>
    /\ MmlsIdle
    /\ TreeIdle
    /\ AppIdle
    /\ CarveIdle
    /\ SessIdle

\* getMd5, fsstatParser and the classification on every output of the
\* bounded sets
SpecTools == ToolsInit /\ [][ToolsNext]_vars

=============================================================================
